---- MODULE Spec2Model ----
(***************************************************************************)
(* Verification model of the cloud-debug-nodejs agent.                     *)
(*                                                                         *)
(* Two layers are modelled.                                                *)
(*  - The debug-API layer, InspectorDebugApi (src/src/agent/v8inspector.ts) *)
(*    with its maps `breakpoints` and `listeners`, the counter             *)
(*    `numBreakpoints`, the callbacks it defers with setImmediate and the  *)
(*    re-enable timers of throttled log listeners.  The low-level debugger *)
(*    (V8 inspector session) and the host program are the environment: the *)
(*    debugger answers setBreakpointByUrl with an error or with a          *)
(*    breakpoint id that is not installed at that moment, and the host     *)
(*    program delivers pause events.                                       *)
(*  - The Debuglet control loop, whose implementation is not part of the   *)
(*    source tree; it is modelled from spec.md section 4.7 and drives the  *)
(*    debug-API layer through set / wait / log / clear.                    *)
(*                                                                         *)
(* Four smaller parts have a specification of their own: Debuglet.format   *)
(* (SpecFormat), debugapi.create and its singleton (SpecCreate),           *)
(* sourcemapper.create with its parallel loads (SpecMapper) and the start  *)
(* function and auto-start timer of the main module (SpecStart).  Their    *)
(* state is constant in the specifications of the two layers.              *)
(*                                                                         *)
(* Time is the value of Date.now() in milliseconds.                        *)
(***************************************************************************)
EXTENDS Integers, Sequences, FiniteSets, TLC

(***************************************************************************)
(* Bounds of the model.                                                    *)
(***************************************************************************)
NumBps == 3         \* breakpoint objects / Controller breakpoint ids 1..NumBps
NumApiBps == 2      \* breakpoint objects the DebugApi client works with
NumLowIds == 2      \* breakpoint ids the low-level debugger can hand out
MaxPending == 2     \* callbacks queued with setImmediate at one time
MaxTimers == 1      \* re-enable timers pending at one time
MaxCount == 2       \* history counters saturate at this value
MaxBackoff == 2     \* doublings after which the registration delay is capped
Ticks == 1          \* number of clock advances in a behaviour
LogTicks == 3       \* number of half-window clock advances (SpecLog)
MaxLogTimers == 2   \* re-enable timers pending at one time (SpecLog)
MaxExprs == 2       \* watch expressions of one breakpoint (SpecCapture)
MaxTemplate == 4    \* characters of a log message template (SpecFormat)
MaxApis == 5        \* DebugApi instances constructed in a behaviour
NumMaps == 3        \* paths given to sourcemapper.create

(***************************************************************************)
(* Program constants.                                                      *)
(***************************************************************************)
TimesliceMs == 1000  \* width of the log throttling window
TickMs == TimesliceMs \* the clock advances one window at a time
MODULE_WRAP_PREFIX_LENGTH == 62  \* require('module').wrap('x').indexOf('x')

Min(a, b) == IF a < b THEN a ELSE b

BpIds == 1..NumBps
ApiBps == 1..Min(NumApiBps, NumBps)
LowIds == 1..NumLowIds
NoId == 0
NoHit == 0
MaxTime == Ticks * TickMs

Bump(c) == Min(c + 1, MaxCount)

(***************************************************************************)
(* apiTypes.Breakpoint.action of the breakpoint objects.  Object 1 is a    *)
(* snapshot, object 2 a logpoint, object 3 carries an action that is       *)
(* neither; further objects repeat the pattern.                            *)
(***************************************************************************)
ActionOf(b) ==
  CASE b % 3 = 1 -> "CAPTURE"
    [] b % 3 = 2 -> "LOG"
    [] OTHER -> "FOO"

VARIABLES
  breakpoints,     \* InspectorDebugApi.breakpoints: bp id -> BreakpointData.id
  listeners,       \* InspectorDebugApi.listeners: low-level id -> Listener
  numBreakpoints,  \* InspectorDebugApi.numBreakpoints
  hooks,           \* breakpoints installed in the low-level debugger
  immediates,      \* callbacks queued with setImmediate, oldest first
  timers,          \* pending setTimeout re-enable callbacks of log listeners
  bpObj,           \* fields of the apiTypes.Breakpoint objects
  stopped,         \* breakpoints whose shouldStop() closure answers true
  active,          \* Debuglet.activeBreakpointMap (its keys)
  finalized,       \* Debuglet: ids already reported as final
  updates,         \* per breakpoint: the updateBreakpoint calls issued
  lastPoll,        \* ids of the last listBreakpoints result
  created,         \* per breakpoint: time the Debuglet received it
  now,             \* Date.now()
  config,          \* config.log.{maxLogsPerSecond, logDelaySeconds (in ms)}
  ctl,             \* Debuglet: start / registration / fetcher state
  watch,           \* per breakpoint: BreakpointData.compile and the object's
                   \* expressions / evaluatedExpressions
  trace,           \* the breakpoint given to the set call of the last step
                   \* and what that call passed to setBreakpointByUrl
  last,            \* the operation that produced this state and its outcome
  logMessage,      \* Debuglet.format: its arguments and what it returned
  singleton,       \* debugapi.ts: the module variable singleton
  sessions,        \* per DebugApi instance: its kind and its debugger session
  apiCall,         \* the latest call of debugapi.create or disconnect
  mapFiles,        \* sourcemapper.create: what each of sourcemapPaths holds
  loads,           \* per path: "pending", "done" or "failed"
  infoMap_,        \* SourceMapper.infoMap_: input file -> its map file
  mapperResult,    \* what the callback of sourcemapper.create was given
  started_,        \* the agent's main module: var started_
  log_,            \* the agent's main module: var log_ and what it logged
  debuglets,       \* Debuglets constructed and started by start()
  autoStart,       \* the one-second setTimeout of the main module
  env,             \* process.env and the configuration file it names
  startCall        \* the latest call of start() and who made it

vars == <<breakpoints, listeners, numBreakpoints, hooks, immediates, timers,
          bpObj, stopped, active, finalized, updates, lastPoll, created,
          now, config, ctl, watch, trace, last, logMessage,
          singleton, sessions, apiCall,
          mapFiles, loads, infoMap_, mapperResult,
          started_, log_, debuglets, autoStart, env, startCall>>

\* The state outside the debug-API layer and the Debuglet control loop.
mainVars == <<started_, log_, debuglets, autoStart, env, startCall>>

otherVars ==
  <<logMessage, singleton, sessions, apiCall,
    mapFiles, loads, infoMap_, mapperResult, mainVars>>

(***************************************************************************)
(* The state as one record, so that an operation is a function from state  *)
(* to state and a handler that calls several operations composes them.     *)
(***************************************************************************)
Cur ==
  [breakpoints |-> breakpoints, listeners |-> listeners,
   numBreakpoints |-> numBreakpoints, hooks |-> hooks,
   immediates |-> immediates, timers |-> timers, bpObj |-> bpObj,
   stopped |-> stopped,
   active |-> active, finalized |-> finalized, updates |-> updates,
   lastPoll |-> lastPoll, created |-> created, watch |-> watch,
   bp |-> NoId, arg |-> << >>, call |-> << >>, out |-> "none"]

Commit(s) ==
  /\ breakpoints' = s.breakpoints
  /\ listeners' = s.listeners
  /\ numBreakpoints' = s.numBreakpoints
  /\ hooks' = s.hooks
  /\ immediates' = s.immediates
  /\ timers' = s.timers
  /\ bpObj' = s.bpObj
  /\ stopped' = s.stopped
  /\ active' = s.active
  /\ finalized' = s.finalized
  /\ updates' = s.updates
  /\ lastPoll' = s.lastPoll
  /\ created' = s.created
  /\ watch' = s.watch
  /\ trace' = [bp |-> s.bp, arg |-> s.arg, call |-> s.call]

Event(op, out) == [op |-> op, out |-> out]

(***************************************************************************)
(* utils.Listener {enabled, listener}.  The listener closure is kept as    *)
(* the data it closes over: which of wait / log built it, the breakpoint   *)
(* object it is bound to and, for log, logsThisSecond and timesliceEnd.    *)
(* History kept with it: `hits` counts the hits on which the listener      *)
(* detached itself (a wait listener on its hit, a log listener on a hit    *)
(* that found shouldStop() true), `quietUntil` is the time at which the    *)
(* delay started by its latest throttling hit ends.                        *)
(***************************************************************************)
NoListener ==
  [kind |-> "none", enabled |-> FALSE, bp |-> NoId, logsThisSecond |-> 0,
   timesliceEnd |-> 0, hits |-> 0, quietUntil |-> 0]

(***************************************************************************)
(* A watch expression of a breakpoint: k is its place in the expressions   *)
(* the breakpoint was set with, bad says that the compile function throws  *)
(* on it, passes counts how often it went through the compile function.    *)
(* An entry of evaluatedExpressions is the value of an expression or the   *)
(* 'Error Compiling Expression' status of one.                             *)
(***************************************************************************)
Expression(k, bad) == [k |-> k, bad |-> bad, passes |-> 0]

Value(e) == [k |-> e.k, kind |-> "value", passes |-> e.passes]

ErrorCompilingExpression(e) ==
  [k |-> e.k, kind |-> "Error Compiling Expression", passes |-> e.passes]

NoWatch ==
  [compile |-> FALSE, set |-> << >>, expressions |-> << >>,
   evaluatedExpressions |-> << >>]

NewBreakpoint ==
  [status |-> "none", stackFrames |-> FALSE, evaluatedExpressions |-> FALSE]

(***************************************************************************)
(* utils.setErrorStatusAndCallback(cb, breakpoint, refersTo, message):     *)
(* puts the error status on the breakpoint and hands an Error to cb.  The  *)
(* status is kept as its message.                                          *)
(***************************************************************************)
SetErrorStatusAndCallback(s, b, message) ==
  [s EXCEPT !.bpObj[b].status = message, !.out = message]

(***************************************************************************)
(* The breakpoint given to set and what the agent knows about its path.    *)
(* id: "undefined", "0" or another id.  line: location.line, 0 when there  *)
(* is none; column: location.column, 0 when there is none.  mapped: the    *)
(* source mapper has the path, and then mapLine / mapColumn are what       *)
(* mappingInfo returns and compiler says whether getBreakpointCompiler     *)
(* finds a compile function.  cond: the condition, "none" when undefined,  *)
(* "null" for null; "syntaxError" and "disallowed" stand for a condition   *)
(* that acorn or the validator refuses.  scripts: the number of scripts    *)
(* findScripts returns; lines: fileStats[matchingScript].lines.            *)
(***************************************************************************)
GoodInput ==
  [id |-> "foo", hasLocation |-> TRUE, hasPath |-> TRUE, line |-> 1,
   column |-> 0, mapped |-> FALSE, mapLine |-> 0, mapColumn |-> 0,
   compiler |-> FALSE, jsPath |-> TRUE, cond |-> "none",
   compileThrows |-> FALSE, scripts |-> 1, lines |-> 3,
   expressions |-> << >>]

\* JavaScript truthiness of breakpoint.condition.
Truthy(cond) == cond \notin {"none", "null", ""}

(***************************************************************************)
(* The checks of set and setInternal in the order of the code; "ok" when   *)
(* the breakpoint reaches v8Inspector.setBreakpointByUrl.                  *)
(***************************************************************************)
ZeroIdRejectedSetError(in) ==
  IF \/ in.id \in {"undefined", "0"}
     \/ ~in.hasLocation
     \/ ~in.hasPath
     \/ in.line = 0
  THEN "INVALID_BREAKPOINT"
  ELSE IF ~in.mapped /\ ~in.jsPath THEN "COULD_NOT_FIND_OUTPUT_FILE"
  ELSE IF in.mapped /\ in.compiler /\ Truthy(in.cond) /\ in.compileThrows
  THEN "ERROR_COMPILING_CONDITION"
  ELSE IF in.cond = "syntaxError" THEN "SYNTAX_ERROR_IN_CONDITION"
  ELSE IF in.cond = "disallowed" THEN "DISALLOWED_EXPRESSION"
  ELSE IF in.scripts = 0 THEN "SOURCE_FILE_NOT_FOUND"
  ELSE IF in.scripts > 1 THEN "SOURCE_FILE_AMBIGUOUS"
  ELSE IF in.line >= in.lines THEN "INVALID_LINE_NUMBER"
  ELSE "ok"

SetError(in) ==
  IF \/ in.id = "undefined"
     \/ ~in.hasLocation
     \/ ~in.hasPath
     \/ in.line = 0
  THEN "INVALID_BREAKPOINT"
  ELSE IF ~in.mapped /\ ~in.jsPath THEN "COULD_NOT_FIND_OUTPUT_FILE"
  ELSE IF in.mapped /\ in.compiler /\ Truthy(in.cond) /\ in.compileThrows
  THEN "ERROR_COMPILING_CONDITION"
  ELSE IF in.cond = "syntaxError" THEN "SYNTAX_ERROR_IN_CONDITION"
  ELSE IF in.cond = "disallowed" THEN "DISALLOWED_EXPRESSION"
  ELSE IF in.scripts = 0 THEN "SOURCE_FILE_NOT_FOUND"
  ELSE IF in.scripts > 1 THEN "SOURCE_FILE_AMBIGUOUS"
  ELSE IF in.line >= in.lines THEN "INVALID_LINE_NUMBER"
  ELSE "ok"

(***************************************************************************)
(* The refersTo that goes with each message in the calls of                *)
(* setErrorStatusAndCallback, and the messages set can answer with.        *)
(***************************************************************************)
SetErrors ==
  {"INVALID_BREAKPOINT", "COULD_NOT_FIND_OUTPUT_FILE",
   "ERROR_COMPILING_CONDITION", "SYNTAX_ERROR_IN_CONDITION",
   "DISALLOWED_EXPRESSION", "SOURCE_FILE_NOT_FOUND", "SOURCE_FILE_AMBIGUOUS",
   "INVALID_LINE_NUMBER", "V8_BREAKPOINT_ERROR"}

RefersTo(message) ==
  CASE message = "INVALID_BREAKPOINT" -> "UNSPECIFIED"
    [] message \in {"COULD_NOT_FIND_OUTPUT_FILE", "SOURCE_FILE_NOT_FOUND",
                    "SOURCE_FILE_AMBIGUOUS", "INVALID_LINE_NUMBER",
                    "V8_BREAKPOINT_ERROR", "V8_BREAKPOINT_DISABLED",
                    "CAPTURE_BREAKPOINT_DATA"} ->
         "BREAKPOINT_SOURCE_LOCATION"
    [] message \in {"ERROR_COMPILING_CONDITION", "SYNTAX_ERROR_IN_CONDITION",
                    "DISALLOWED_EXPRESSION", "V8_BREAKPOINT_CLEAR_ERROR"} ->
         "BREAKPOINT_CONDITION"
    [] OTHER -> "none"

(***************************************************************************)
(* What v8Inspector.setBreakpointByUrl can answer: an error (NoId), or the *)
(* id of the new low-level breakpoint, which is not one installed now.     *)
(***************************************************************************)
V8Answers(s) == {NoId} \cup (LowIds \ s.hooks)

\* A callback queued with setImmediate; err is the error it will be given.
Immediate(kind, b) == [kind |-> kind, bp |-> b, err |-> "none"]

(***************************************************************************)
(* set(breakpoint, cb), with setInternal.  `res` is the debugger's answer. *)
(***************************************************************************)
StoreBreakpointData(s, b, res) ==
  [s EXCEPT !.breakpoints[b] = res, !.numBreakpoints = @ + 1]

(***************************************************************************)
(* The arguments setInternal gives to setBreakpointByUrl.  The condition   *)
(* is kept as its source and whether it went through the compile function; *)
(* NoCondition is undefined.                                               *)
(***************************************************************************)
NoCondition == [src |-> "none", compiled |-> FALSE]

Condition(in) ==
  IF Truthy(in.cond)
  THEN [src |-> in.cond, compiled |-> in.mapped /\ in.compiler]
  ELSE NoCondition

Column(in) ==
  IF in.mapped /\ in.mapColumn # 0 THEN in.mapColumn
  ELSE IF in.column # 0 THEN in.column
  ELSE 1

Line(in) == IF in.mapped THEN in.mapLine ELSE in.line

WrappedColumn(in) ==
  IF Line(in) = 1 THEN Column(in) + MODULE_WRAP_PREFIX_LENGTH - 1
  ELSE Column(in)

SetBreakpointByUrlArgs(in) ==
  [line |-> Line(in) - 1, column |-> WrappedColumn(in) - 1,
   condition |-> Condition(in)]

\* The breakpoint object as the client hands it to set.
Given(s, b, in) ==
  [s EXCEPT !.bp = b, !.arg = <<in>>,
            !.watch[b] = [NoWatch EXCEPT !.set = in.expressions,
                                         !.expressions = in.expressions]]

CountFirstSet(s, b, in, res) ==
  IF SetError(in) # "ok"
  THEN SetErrorStatusAndCallback(Given(s, b, in), b, SetError(in))
  ELSE IF res = NoId
  THEN SetErrorStatusAndCallback(
         [Given(s, b, in) EXCEPT !.call = <<SetBreakpointByUrlArgs(in)>>,
                                 !.numBreakpoints = @ + 1],
         b, "V8_BREAKPOINT_ERROR")
  ELSE [StoreBreakpointData(Given(s, b, in), b, res) EXCEPT
          !.call = <<SetBreakpointByUrlArgs(in)>>,
          !.watch[b].compile = in.mapped /\ in.compiler,
          !.hooks = @ \cup {res},
          !.immediates = Append(@, Immediate("setCb", b)),
          !.out = "ok"]

Set(s, b, in, res) ==
  IF SetError(in) # "ok"
  THEN SetErrorStatusAndCallback(Given(s, b, in), b, SetError(in))
  ELSE IF res = NoId
  THEN SetErrorStatusAndCallback(
         [Given(s, b, in) EXCEPT !.call = <<SetBreakpointByUrlArgs(in)>>],
         b, "V8_BREAKPOINT_ERROR")
  ELSE [StoreBreakpointData(Given(s, b, in), b, res) EXCEPT
          !.call = <<SetBreakpointByUrlArgs(in)>>,
          !.watch[b].compile = in.mapped /\ in.compiler,
          !.hooks = @ \cup {res},
          !.immediates = Append(@, Immediate("setCb", b)),
          !.out = "ok"]

(***************************************************************************)
(* clear(breakpoint, cb).                                                  *)
(***************************************************************************)
KeepListenerDeleteEntries(s, b) ==
  [s EXCEPT !.breakpoints[b] = NoId, !.numBreakpoints = @ - 1]

KeepDataDeleteEntries(s, b) ==
  [s EXCEPT !.listeners[s.breakpoints[b]] = NoListener,
            !.numBreakpoints = @ - 1]

DeleteEntries(s, b) ==
  [s EXCEPT !.breakpoints[b] = NoId,
            !.listeners[s.breakpoints[b]] = NoListener,
            !.numBreakpoints = @ - 1]

\* The callbacks in q other than the pending wait callbacks of b.
RECURSIVE WithoutWaitCallbacks(_, _)
WithoutWaitCallbacks(q, b) ==
  IF q = << >> THEN << >>
  ELSE IF Head(q).kind = "waitCb" /\ Head(q).bp = b
  THEN WithoutWaitCallbacks(Tail(q), b)
  ELSE <<Head(q)>> \o WithoutWaitCallbacks(Tail(q), b)

CancellingClear(s, b) ==
  IF s.breakpoints[b] = NoId
  THEN SetErrorStatusAndCallback(s, b, "V8_BREAKPOINT_CLEAR_ERROR")
  ELSE [DeleteEntries(s, b) EXCEPT
          !.hooks = @ \ {s.breakpoints[b]},
          !.immediates =
            Append(WithoutWaitCallbacks(@, b), Immediate("clearCb", b)),
          !.out = "ok"]

DecrementingClear(s, b) ==
  IF s.breakpoints[b] = NoId
  THEN SetErrorStatusAndCallback([s EXCEPT !.numBreakpoints = @ - 1], b,
                                 "V8_BREAKPOINT_CLEAR_ERROR")
  ELSE [DeleteEntries(s, b) EXCEPT
          !.hooks = @ \ {s.breakpoints[b]},
          !.immediates = Append(@, Immediate("clearCb", b)),
          !.out = "ok"]

Clear(s, b) ==
  IF s.breakpoints[b] = NoId
  THEN SetErrorStatusAndCallback(s, b, "V8_BREAKPOINT_CLEAR_ERROR")
  ELSE [DeleteEntries(s, b) EXCEPT
          !.hooks = @ \ {s.breakpoints[b]},
          !.immediates = Append(@, Immediate("clearCb", b)),
          !.out = "ok"]

(***************************************************************************)
(* wait(breakpoint, callback) and log(breakpoint, print, shouldStop), for  *)
(* an installed breakpoint: they store the listener under the low-level id *)
(* of the breakpoint.  (For a breakpoint that is not installed, reading    *)
(* the id of the missing BreakpointData throws before anything is stored.) *)
(***************************************************************************)
Wait(s, b) ==
  [s EXCEPT !.listeners[s.breakpoints[b]] =
     [kind |-> "wait", enabled |-> TRUE, bp |-> b, logsThisSecond |-> 0,
      timesliceEnd |-> 0, hits |-> 0, quietUntil |-> 0],
     !.out = "ok"]

Log(s, b, t) ==
  [s EXCEPT !.listeners[s.breakpoints[b]] =
     [kind |-> "log", enabled |-> TRUE, bp |-> b, logsThisSecond |-> 0,
      timesliceEnd |-> t + TimesliceMs, hits |-> 0, quietUntil |-> 0],
     !.out = "ok"]

numBreakpoints_(s) == Cardinality({b \in BpIds : s.breakpoints[b] # NoId})

numListeners_(s) == Cardinality({l \in LowIds : s.listeners[l] # NoListener})

(***************************************************************************)
(* captureBreakpointData: a logpoint gets evaluatedExpressions only, any   *)
(* other breakpoint gets stackFrames, variableTable and the line of the    *)
(* top frame (kept as one field) and evaluatedExpressions.                 *)
(***************************************************************************)
RemoveAt(q, i) == SubSeq(q, 1, i - 1) \o SubSeq(q, i + 1, Len(q))

(***************************************************************************)
(* The compile loop: expression i is replaced by its compiled form, or,    *)
(* when the compile function throws, reported in expressionErrors and      *)
(* spliced out of breakpoint.expressions; i is incremented either way.     *)
(***************************************************************************)
RECURSIVE CompileLoop(_, _, _)
CompileLoop(expressions, expressionErrors, i) ==
  IF i > Len(expressions)
  THEN [expressions |-> expressions, expressionErrors |-> expressionErrors]
  ELSE IF expressions[i].bad
  THEN CompileLoop(RemoveAt(expressions, i),
                   Append(expressionErrors,
                          ErrorCompilingExpression(expressions[i])),
                   i + 1)
  ELSE CompileLoop([expressions EXCEPT ![i].passes = Bump(@)],
                   expressionErrors, i + 1)

Compiled(s, b) ==
  IF s.watch[b].compile
  THEN CompileLoop(s.watch[b].expressions, << >>, 1)
  ELSE [expressions |-> s.watch[b].expressions, expressionErrors |-> << >>]

\* One entry per expression of breakpoint.expressions, in its order.
Evaluate(expressions) ==
  [i \in 1..Len(expressions) |-> Value(expressions[i])]

CaptureBreakpointData(s, b) ==
  LET c == Compiled(s, b)
      r == [s EXCEPT !.watch[b].expressions = c.expressions]
  IN IF ActionOf(b) = "LOG"
     THEN [r EXCEPT !.bpObj[b].evaluatedExpressions = TRUE,
                    !.watch[b].evaluatedExpressions =
                      Evaluate(c.expressions)]
     ELSE [r EXCEPT !.bpObj[b].stackFrames = TRUE,
                    !.bpObj[b].evaluatedExpressions = TRUE,
                    !.watch[b].evaluatedExpressions =
                      c.expressionErrors \o Evaluate(c.expressions)]

\* captureBreakpointData throws, which it can only do after the compile
\* loop.
CaptureThrows(s, b) ==
  [s EXCEPT !.watch[b].expressions = Compiled(s, b).expressions]

ShouldStop(s, b) == b \in s.stopped

(***************************************************************************)
(* The callback wait gives to onBreakpointHit: disable the listener stored *)
(* under the low-level id and defer the user's callback.                   *)
(***************************************************************************)
DisableListener(s, l) == [s EXCEPT !.listeners[l].enabled = FALSE]

SynchronousWaitHit(s, l) ==
  [DisableListener(s, l) EXCEPT
     !.listeners[l].hits = Bump(@),
     !.out = "fired"]

\* s.out is the error onBreakpointHit hands to the callback, "none" for null.
WaitHit(s, l) ==
  [DisableListener(s, l) EXCEPT
     !.listeners[l].hits = Bump(@),
     !.immediates =
       Append(@, [Immediate("waitCb", s.listeners[l].bp)
                    EXCEPT !.err = s.out]),
     !.out = "fired"]

(***************************************************************************)
(* The callback log gives to onBreakpointHit, at time t.  Mapping over a   *)
(* missing evaluatedExpressions throws, after the timeslice was renewed.   *)
(***************************************************************************)
RenewTimeslice(s, l, t) ==
  IF t > s.listeners[l].timesliceEnd
  THEN [s EXCEPT !.listeners[l].logsThisSecond = 0,
                 !.listeners[l].timesliceEnd = t + TimesliceMs]
  ELSE s

Throttle(s, l, t, cfg) ==
  IF ShouldStop(s, s.listeners[l].bp)
  THEN [DisableListener(s, l) EXCEPT !.listeners[l].hits = Bump(@)]
  ELSE IF s.listeners[l].logsThisSecond >= cfg.maxLogsPerSecond
  THEN [DisableListener(s, l) EXCEPT
          !.listeners[l].quietUntil = t + cfg.logDelayMs,
          !.timers = @ \cup {[low |-> l, owner |-> s.listeners[l].bp,
                              due |-> t + cfg.logDelayMs]}]
  ELSE s

LogHit(s, l, t, cfg) ==
  LET r == RenewTimeslice(s, l, t)
      b == s.listeners[l].bp
  IN IF ~r.bpObj[b].evaluatedExpressions
     THEN [r EXCEPT !.out = "warn"]
     ELSE [Throttle([r EXCEPT !.listeners[l].logsThisSecond = Bump(@)],
                      l, t, cfg)
             EXCEPT !.out = "fired"]

OneShotListenerCallback(s, l, t, cfg) == WaitHit(s, l)

ListenerCallback(s, l, t, cfg) ==
  IF s.listeners[l].kind = "wait" THEN WaitHit(s, l)
  ELSE LogHit(s, l, t, cfg)

(***************************************************************************)
(* onBreakpointHit for the listener stored under l.  captured says whether *)
(* captureBreakpointData returns (TRUE) or throws (FALSE).  Reading        *)
(* .active of a missing BreakpointData throws.                             *)
(***************************************************************************)
SilentOnBreakpointHit(s, l, captured, t, cfg) ==
  LET b == s.listeners[l].bp
  IN IF s.breakpoints[b] = NoId THEN [s EXCEPT !.out = "warn"]
     ELSE IF ~captured
     THEN [CaptureThrows(s, b) EXCEPT
             !.bpObj[b].status = "CAPTURE_BREAKPOINT_DATA", !.out = "warn"]
     ELSE ListenerCallback(CaptureBreakpointData(s, b), l, t, cfg)

OnBreakpointHit(s, l, captured, t, cfg) ==
  LET b == s.listeners[l].bp
  IN IF s.breakpoints[b] = NoId THEN [s EXCEPT !.out = "warn"]
     ELSE IF ~captured
     THEN ListenerCallback(
            SetErrorStatusAndCallback(CaptureThrows(s, b), b,
                                      "CAPTURE_BREAKPOINT_DATA"),
            l, t, cfg)
     ELSE ListenerCallback(CaptureBreakpointData(s, b), l, t, cfg)

(***************************************************************************)
(* handleDebugPausedEvent inside the try/catch of the Debugger.paused      *)
(* handler.  hit is params.hitBreakpoints[0], NoHit without hitBreakpoints.*)
(* Outcomes: "nohit", "warn" (an exception was caught and logged),         *)
(* "skipped" (listener disabled), "fired".                                 *)
(***************************************************************************)
UnguardedHandleDebugPausedEvent(s, hit, captured, t, cfg) ==
  IF hit = NoHit THEN [s EXCEPT !.out = "nohit"]
  ELSE IF s.listeners[hit] = NoListener THEN [s EXCEPT !.out = "uncaught"]
  ELSE IF ~s.listeners[hit].enabled THEN [s EXCEPT !.out = "skipped"]
  ELSE OnBreakpointHit(s, hit, captured, t, cfg)

HandleDebugPausedEvent(s, hit, captured, t, cfg) ==
  IF hit = NoHit THEN [s EXCEPT !.out = "nohit"]
  ELSE IF s.listeners[hit] = NoListener THEN [s EXCEPT !.out = "warn"]
  ELSE IF ~s.listeners[hit].enabled THEN [s EXCEPT !.out = "skipped"]
  ELSE OnBreakpointHit(s, hit, captured, t, cfg)

(***************************************************************************)
(* The setTimeout callback of a throttled log listener.                    *)
(***************************************************************************)
StayDisabledReenable(s, tm) == [s EXCEPT !.out = "skipped"]

Reenable(s, tm) ==
  IF ~ShouldStop(s, tm.owner) /\ s.listeners[tm.low] # NoListener
  THEN [s EXCEPT !.listeners[tm.low].enabled = TRUE, !.out = "enabled"]
  ELSE [s EXCEPT !.out = "skipped"]

TimerFires(s, tm) == Reenable([s EXCEPT !.timers = @ \ {tm}], tm)

(***************************************************************************)
(* Callbacks queued with setImmediate run oldest first, each in a turn of  *)
(* its own; an exception the client's wait callback throws there is        *)
(* uncaught.  The callback queued by clear reads result.error of the value *)
(* removeBreakpoint                                                        *)
(* returns; removeBreakpoint returns nothing, so that read throws outside  *)
(* any try block and the callback given to clear is never invoked.         *)
(***************************************************************************)
RemoveBreakpointResult == "undefined"

ClearCallbackOutcome ==
  IF RemoveBreakpointResult = "undefined" THEN "uncaught" ELSE "called"

Dequeue(s) == [s EXCEPT !.immediates = Tail(@)]

(***************************************************************************)
(* The program driven through the DebugApi interface by a free client,     *)
(* which registers the listener that matches the breakpoint's action.      *)
(***************************************************************************)
Configs ==
  { [maxLogsPerSecond |-> 1, logDelayMs |-> 1000,
      breakpointExpirationMs |-> 1000] }

ApiInputs == { GoodInput, [GoodInput EXCEPT !.line = 3] }

(***************************************************************************)
(* The Debuglet's own state.  stage: "constructed" until start() has run,  *)
(* then "running", or "stopped" after a failed start or stop().  pending:  *)
(* the one thing the control loop is waiting for, a registration timer, a  *)
(* register response, a fetch timer or a listBreakpoints response.         *)
(* backoff: how often the registration retry delay has been doubled.       *)
(* The counters of events emitted and of requests issued are history.      *)
(***************************************************************************)
InitCtl ==
  [stage |-> "constructed", fetcherActive |-> FALSE, pending |-> "none",
   backoff |-> 0, projectId |-> "none", debuggeeId |-> "none",
   lastRegister |-> "none",
   started |-> 0, initError |-> 0, registered |-> 0, disabled |-> 0,
   registerRequests |-> 0, listRequests |-> 0]

DEBUGGEE_ID == "bar"

\* The Debuglet registered on its first attempt and its first
\* listBreakpoints request is out.
FetchingCtl ==
  [InitCtl EXCEPT !.stage = "running", !.fetcherActive = TRUE,
                  !.pending = "listRequest", !.projectId = "fake-project",
                  !.debuggeeId = DEBUGGEE_ID,
                  !.lastRegister = "ok", !.started = 1, !.registered = 1,
                  !.registerRequests = 1, !.listRequests = 1]

InitAgent ==
  /\ breakpoints = [b \in BpIds |-> NoId]
  /\ listeners = [l \in LowIds |-> NoListener]
  /\ numBreakpoints = 0
  /\ hooks = {}
  /\ immediates = << >>
  /\ timers = {}
  /\ bpObj = [b \in BpIds |-> NewBreakpoint]
  /\ stopped = {}
  /\ active = {}
  /\ finalized = {}
  /\ updates = [b \in BpIds |-> << >>]
  /\ lastPoll = {}
  /\ created = [b \in BpIds |-> 0]
  /\ watch = [b \in BpIds |-> NoWatch]
  /\ trace = [bp |-> NoId, arg |-> << >>, call |-> << >>]
  /\ now = 0
  /\ last = Event("init", "none")

\* No message has been formatted.
NoMessage == [base |-> << >>, exprs |-> << >>, out |-> << >>, done |-> FALSE]

\* The DebugApi instances debugapi.create can construct; NoApi is the value
\* of singleton before the first one.
Apis == 1..MaxApis

NoApi == 0

NoSession == [kind |-> "none", state |-> "none"]

NoApiCall ==
  [op |-> "none", force |-> FALSE, api |-> NoApi, opened |-> FALSE,
   connectedBefore |-> 0]

\* The paths given to sourcemapper.create, by position, and the input
\* files the map files can list.  NoMap: infoMap_ has no entry.
MapPaths == 1..NumMaps

InputFiles == {"in.ts", "in.coffee"}

NoMap == 0

\* What a path holds: a source map that lists the given input files, or
\* nothing that can be read as one.
Unreadable == [readable |-> FALSE, sources |-> {}]

MapContents ==
  {Unreadable} \cup {[readable |-> TRUE, sources |-> S] : S \in SUBSET InputFiles}

\* new SourceMapper(), and create called with the given map files.
NewMapper(files) ==
  [mapFiles |-> files, loads |-> [m \in MapPaths |-> "pending"],
   infoMap_ |-> [src \in InputFiles |-> NoMap], result |-> "none"]

\* No path could be read: the agent runs without source maps and
\* sourcemapper.create has reported the error.
NoMapper ==
  [mapFiles |-> [m \in MapPaths |-> Unreadable],
   loads |-> [m \in MapPaths |-> "failed"],
   infoMap_ |-> [src \in InputFiles |-> NoMap], result |-> "error"]

\* process.env without any of the agent's variables.
NoEnv == [GCLOUD_DEBUG_DISABLE |-> FALSE, GCLOUD_DIAGNOSTICS_CONFIG |-> "unset"]

NoStartCall == [by |-> "none", enabled |-> "undefined", disabled |-> FALSE]

(***************************************************************************)
(* The state outside the two layers.  message: what Debuglet.format was    *)
(* called with; debugapi.ts loaded and create not called; mapper: the      *)
(* sourcemapper.create call; the main module right after it has been       *)
(* loaded under the environment e, nothing started and the auto-start      *)
(* timer armed.                                                            *)
(***************************************************************************)
InitOthers(message, mapper, e) ==
  /\ logMessage = message
  /\ singleton = NoApi
  /\ sessions = [i \in Apis |-> NoSession]
  /\ apiCall = NoApiCall
  /\ mapFiles = mapper.mapFiles
  /\ loads = mapper.loads
  /\ infoMap_ = mapper.infoMap_
  /\ mapperResult = mapper.result
  /\ started_ = FALSE
  /\ log_ = [created |-> FALSE, alreadyStarted |-> 0, autoStarted |-> 0]
  /\ debuglets = 0
  /\ autoStart = "pending"
  /\ env = e
  /\ startCall = NoStartCall

InitState == InitAgent /\ InitOthers(NoMessage, NoMapper, NoEnv)

InitApi == InitState /\ config \in Configs /\ ctl = InitCtl

Step(s, op) ==
  /\ Commit(s)
  /\ last' = Event(op, s.out)
  /\ UNCHANGED <<now, config, ctl>>
  /\ UNCHANGED otherVars

ApiSet(b, in, res) ==
  /\ bpObj[b] = NewBreakpoint
  /\ Len(immediates) < MaxPending
  /\ res \in V8Answers(Cur)
  /\ Step(Set(Cur, b, in, res), "set")

ApiClear(b) ==
  /\ Len(immediates) < MaxPending
  /\ Step(Clear(Cur, b), "clear")

ApiWait(b) ==
  /\ ActionOf(b) # "LOG"
  /\ breakpoints[b] # NoId
  /\ Step(Wait(Cur, b), "wait")

ApiLog(b) ==
  /\ ActionOf(b) = "LOG"
  /\ breakpoints[b] # NoId
  /\ Step(Log(Cur, b, now), "log")

ApiStop(b) ==
  /\ ActionOf(b) = "LOG"
  /\ b \notin stopped
  /\ Step([Cur EXCEPT !.stopped = @ \cup {b}], "stop")

(***************************************************************************)
(* A Debugger.paused event.  Paused: the event names a breakpoint that is  *)
(* installed in the low-level debugger, or none.  StalePaused: it names    *)
(* one that is not installed (any more).                                   *)
(***************************************************************************)
PauseStep(op, hit, captured) ==
  /\ Len(immediates) < MaxPending
  /\ IF hit = NoHit THEN TRUE
     ELSE listeners[hit].kind = "log" => Cardinality(timers) < MaxTimers
  /\ Step(HandleDebugPausedEvent(Cur, hit, captured, now, config),
          op)

Paused(hit, captured) ==
  /\ hit \in hooks \cup {NoHit}
  /\ PauseStep("paused", hit, captured)

StalePaused(hit, captured) ==
  /\ hit \in LowIds \ hooks
  /\ PauseStep("stalePaused", hit, captured)

ApiImmediate ==
  /\ immediates # << >>
  /\ LET cb == Head(immediates)
     IN CASE cb.kind = "setCb" ->
               Step([Dequeue(Cur) EXCEPT !.out = "called"], "setCb")
          [] cb.kind = "clearCb" ->
               Step([Dequeue(Cur) EXCEPT !.out = ClearCallbackOutcome],
                    "clearCb")
          [] cb.kind = "waitCb" ->
               \E throws \in BOOLEAN :
                 Step([Dequeue(Cur) EXCEPT
                         !.out = IF throws THEN "uncaught" ELSE "called"],
                      "waitCb")

TimerFire(tm) ==
  /\ tm \in timers
  /\ tm.due <= now
  /\ Step(TimerFires(Cur, tm), "timer")

Tick ==
  /\ now < MaxTime
  /\ now' = now + TickMs
  /\ last' = Event("tick", "none")
  /\ UNCHANGED <<breakpoints, listeners, numBreakpoints, hooks, immediates,
                 timers, bpObj, stopped, active, finalized, updates,
                 lastPoll, created, config, ctl, watch, trace>>
  /\ UNCHANGED otherVars

NextApi ==
  \/ \E b \in ApiBps, in \in ApiInputs, res \in LowIds \cup {NoId} :
       ApiSet(b, in, res)
  \/ \E b \in ApiBps : ApiClear(b)
  \/ \E b \in ApiBps : ApiWait(b)
  \/ \E b \in ApiBps : ApiLog(b)
  \/ \E b \in ApiBps : ApiStop(b)
  \/ \E hit \in LowIds \cup {NoHit}, captured \in BOOLEAN :
       Paused(hit, captured)
  \/ \E hit \in LowIds, captured \in BOOLEAN : StalePaused(hit, captured)
  \/ ApiImmediate
  \/ \E tm \in timers : TimerFire(tm)
  \/ Tick

SpecApi == InitApi /\ [][NextApi]_vars

(***************************************************************************)
(* Log throttling on a finer clock: time advances by half a throttling     *)
(* window, and logDelaySeconds is half a second or one second.  The client *)
(* sets breakpoints, registers one log listener per breakpoint it has set, *)
(* makes shouldStop() of a breakpoint true, and clears breakpoints; the    *)
(* callbacks queued with setImmediate run before the next event.           *)
(***************************************************************************)
LogTickMs == TimesliceMs \div 2

LogMaxTime == LogTicks * LogTickMs

LogConfigs ==
  { [maxLogsPerSecond |-> 1, logDelayMs |-> d, breakpointExpirationMs |-> 1000]
      : d \in {LogTickMs, TimesliceMs} }

InitLog == InitState /\ config \in LogConfigs /\ ctl = InitCtl

LogSet(b, res) ==
  /\ immediates = << >>
  /\ breakpoints[b] = NoId
  /\ ApiSet(b, GoodInput, res)

LogClear(b) == immediates = << >> /\ ApiClear(b)

LogRegister(b) ==
  /\ immediates = << >>
  /\ breakpoints[b] # NoId
  /\ listeners[breakpoints[b]] = NoListener
  /\ Step(Log(Cur, b, now), "log")

LogStop(b) ==
  /\ immediates = << >>
  /\ b \notin stopped
  /\ breakpoints[b] # NoId
  /\ listeners[breakpoints[b]].bp = b
  /\ Step([Cur EXCEPT !.stopped = @ \cup {b}], "stop")

\* A Debugger.paused event, up to LogMaxTime.
LogPaused(hit) ==
  /\ immediates = << >>
  /\ Cardinality(timers) < MaxLogTimers
  /\ now <= LogMaxTime
  /\ Step(HandleDebugPausedEvent(Cur, hit, TRUE, now, config), "paused")

LogTimerFire == immediates = << >> /\ \E tm \in timers : TimerFire(tm)

\* The clock stops at LogMaxTime, or when the last pending timer is due.
LogTick ==
  /\ immediates = << >>
  /\ now < LogMaxTime \/ \E tm \in timers : now < tm.due
  /\ now' = now + LogTickMs
  /\ last' = Event("tick", "none")
  /\ UNCHANGED <<breakpoints, listeners, numBreakpoints, hooks, immediates,
                 timers, bpObj, stopped, active, finalized, updates,
                 lastPoll, created, config, ctl, watch, trace>>
  /\ UNCHANGED otherVars

NextLog ==
  \/ \E b \in ApiBps, res \in LowIds \cup {NoId} : LogSet(b, res)
  \/ \E b \in ApiBps : LogClear(b)
  \/ \E b \in ApiBps : LogRegister(b)
  \/ \E b \in ApiBps : LogStop(b)
  \/ \E hit \in LowIds \cup {NoHit} : LogPaused(hit)
  \/ ApiImmediate
  \/ LogTimerFire
  \/ LogTick

SpecLog == InitLog /\ [][NextLog]_vars

\* Deferred callbacks run, due timers fire and time passes.
SpecLogFair ==
  /\ SpecLog
  /\ WF_vars(ApiImmediate)
  /\ SF_vars(LogTimerFire)
  /\ SF_vars(LogTick)

(***************************************************************************)
(* set and clear under a client that hands set every kind of breakpoint:   *)
(* incomplete ones, ones with and without a source map, with a column,     *)
(* with conditions, on and beyond the last line, with no or several        *)
(* matching scripts.  The client passes a fresh breakpoint object to each  *)
(* set and lets the deferred callbacks run before its next call.           *)
(***************************************************************************)
Ids == {"undefined", "0", "foo"}

Conditions == {"none", "null", "", ";", "x === 1", "syntaxError",
               "disallowed"}

ValidityInputs ==
  { in \in { [GoodInput EXCEPT !.id = i, !.hasLocation = l, !.hasPath = p,
                               !.line = n] :
             i \in Ids, l \in BOOLEAN, p \in BOOLEAN, n \in 0..1 } :
      ~in.hasLocation => (~in.hasPath /\ in.line = 0) }

LineInputs ==
  { [GoodInput EXCEPT !.line = n, !.column = c] :
      n \in 1..(GoodInput.lines + 1), c \in {0, 45} }

MappedInputs ==
  { [GoodInput EXCEPT !.mapped = TRUE, !.jsPath = FALSE, !.line = n,
                      !.column = c, !.mapLine = ml, !.mapColumn = mc] :
      n \in 1..2, c \in {0, 45}, ml \in 0..2, mc \in {0, 5} }

ScriptInputs ==
  { [GoodInput EXCEPT !.scripts = k, !.jsPath = j, !.mapped = m] :
      k \in 0..2, j \in BOOLEAN, m \in BOOLEAN }

ConditionInputs ==
  { in \in { [GoodInput EXCEPT !.cond = c, !.mapped = m, !.compiler = cp,
                               !.compileThrows = t] :
             c \in Conditions, m \in BOOLEAN, cp \in BOOLEAN,
             t \in BOOLEAN } :
      /\ in.compiler => in.mapped
      /\ in.compileThrows => (in.compiler /\ Truthy(in.cond)) }

SetInputs ==
  ValidityInputs \cup LineInputs \cup MappedInputs \cup ScriptInputs
    \cup ConditionInputs

InitSet == InitState /\ config \in Configs /\ ctl = InitCtl

SetAny(b, in, res) ==
  /\ immediates = << >>
  /\ res \in V8Answers(Cur)
  /\ Step(Set([Cur EXCEPT !.bpObj[b] = NewBreakpoint], b, in, res), "set")

SetClear(b) ==
  /\ immediates = << >>
  /\ Step(Clear(Cur, b), "clear")

NextSet ==
  \/ \E b \in ApiBps, in \in SetInputs, res \in LowIds \cup {NoId} :
       SetAny(b, in, res)
  \/ \E b \in ApiBps : SetClear(b)
  \/ ApiImmediate

SpecSet == InitSet /\ [][NextSet]_vars

(***************************************************************************)
(* Hits on breakpoints with watch expressions.  The client sets a          *)
(* breakpoint with up to MaxExprs expressions, in a file with or without   *)
(* a compile function, registers the listener that goes with its action    *)
(* and lets the program run into it; capture may throw.  One breakpoint   *)
(* is installed at a time.                                                 *)
(***************************************************************************)
RECURSIVE WatchLists(_)
WatchLists(n) ==
  IF n = 0 THEN { << >> }
  ELSE WatchLists(n - 1) \cup
       { Append(q, Expression(n, bad)) :
           q \in { w \in WatchLists(n - 1) : Len(w) = n - 1 },
           bad \in BOOLEAN }

CaptureInputs ==
  { in \in { [GoodInput EXCEPT !.mapped = m, !.compiler = m,
                               !.jsPath = ~m, !.expressions = es] :
             m \in BOOLEAN, es \in WatchLists(MaxExprs) } :
      ~in.compiler =>
        \A i \in 1..Len(in.expressions) : ~in.expressions[i].bad }

InitCapture == InitState /\ config \in Configs /\ ctl = InitCtl

CaptureSet(b, in, res) ==
  /\ immediates = << >>
  /\ hooks = {}
  /\ res \in V8Answers(Cur) \ {NoId}
  /\ Step(Set([Cur EXCEPT !.bpObj[b] = NewBreakpoint], b, in, res), "set")

CaptureClear(b) ==
  /\ \A i \in 1..Len(immediates) : immediates[i].kind = "waitCb"
  /\ Len(immediates) < MaxPending
  /\ breakpoints[b] # NoId
  /\ Step(Clear(Cur, b), "clear")

CaptureRegister(b) ==
  /\ immediates = << >>
  /\ breakpoints[b] # NoId
  /\ listeners[breakpoints[b]] = NoListener
  /\ IF ActionOf(b) = "LOG" THEN Step(Log(Cur, b, now), "log")
     ELSE Step(Wait(Cur, b), "wait")

CapturePaused(hit, captured) ==
  /\ immediates = << >>
  /\ listeners[hit] # NoListener
  /\ Paused(hit, captured)

CaptureTimerFire == immediates = << >> /\ \E tm \in timers : TimerFire(tm)

NextCapture ==
  \/ \E b \in ApiBps, in \in CaptureInputs, res \in LowIds :
       CaptureSet(b, in, res)
  \/ \E b \in ApiBps : CaptureClear(b)
  \/ \E b \in ApiBps : CaptureRegister(b)
  \/ \E hit \in LowIds, captured \in BOOLEAN : CapturePaused(hit, captured)
  \/ ApiImmediate
  \/ CaptureTimerFire
  \/ Tick

SpecCapture == InitCapture /\ [][NextCapture]_vars

\* Node runs the callbacks queued with setImmediate.
SpecCaptureFair == SpecCapture /\ WF_vars(ApiImmediate)

(***************************************************************************)
(* The Debuglet control loop: reconciliation of a listBreakpoints result   *)
(* with activeBreakpointMap, expiry and completion of breakpoints.         *)
(***************************************************************************)
BREAKPOINT_ACTION_MESSAGE ==
  "The only currently supported breakpoint actions are CAPTURE and LOG."

SNAPSHOT_EXPIRED_MESSAGE == "The snapshot has expired"

RECURSIVE SeqOf(_)
SeqOf(S) ==
  IF S = {} THEN << >>
  ELSE LET m == CHOOSE x \in S : \A y \in S : x <= y
       IN <<m>> \o SeqOf(S \ {m})

UpdateBreakpoint(s, b) ==
  [s EXCEPT !.updates[b] =
     IF Len(@) < MaxCount THEN Append(@, s.bpObj[b].status) ELSE @]

(***************************************************************************)
(* The shouldStop closure the Debuglet gives to log answers whether the    *)
(* breakpoint has been marked final.                                       *)
(***************************************************************************)
MarkFinal(s, b) ==
  [s EXCEPT !.finalized = @ \cup {b}, !.stopped = @ \cup {b}]

RemoveBreakpoint(s, b) == [Clear(s, b) EXCEPT !.active = @ \ {b}]

(***************************************************************************)
(* A breakpoint is reported when it becomes final; one that is already     *)
(* final is not reported again (the "already finalized" guard).            *)
(***************************************************************************)
UnguardedCompleteBreakpoint(s, b) ==
  RemoveBreakpoint(UpdateBreakpoint(MarkFinal(s, b), b), b)

CompleteBreakpoint(s, b) ==
  IF b \in s.finalized THEN s
  ELSE RemoveBreakpoint(UpdateBreakpoint(MarkFinal(s, b), b), b)

KeepActiveRejectBreakpoint(s, b) == UpdateBreakpoint(MarkFinal(s, b), b)

RejectBreakpoint(s, b) ==
  [UpdateBreakpoint(MarkFinal(s, b), b) EXCEPT !.active = @ \ {b}]

ReportOnlyExpireBreakpoint(s, b) ==
  IF b \in s.finalized THEN s
  ELSE UpdateBreakpoint(
         MarkFinal([s EXCEPT !.bpObj[b].status = SNAPSHOT_EXPIRED_MESSAGE],
                   b), b)

ExpireBreakpoint(s, b) ==
  IF b \in s.finalized THEN s
  ELSE CompleteBreakpoint(
         [s EXCEPT !.bpObj[b].status = SNAPSHOT_EXPIRED_MESSAGE], b)

AnyActionAddBreakpoint(s, b, res, t) ==
  LET r == Set([s EXCEPT !.bpObj[b] = NewBreakpoint, !.active = @ \cup {b},
                         !.created[b] = t],
               b, GoodInput, res)
  IN IF r.out = "ok" THEN r ELSE RejectBreakpoint(r, b)

AddBreakpoint(s, b, res, t) ==
  LET fresh == [s EXCEPT !.bpObj[b] = NewBreakpoint]
  IN IF ActionOf(b) \notin {"CAPTURE", "LOG"}
     THEN RejectBreakpoint(
            [fresh EXCEPT !.bpObj[b].status = BREAKPOINT_ACTION_MESSAGE], b)
     ELSE LET r == Set([fresh EXCEPT !.active = @ \cup {b},
                                     !.created[b] = t],
                       b, GoodInput, res)
          IN IF r.out = "ok" THEN r ELSE RejectBreakpoint(r, b)

RECURSIVE RemoveAll(_, _)
RemoveAll(s, ids) ==
  IF ids = << >> THEN s
  ELSE RemoveAll(RemoveBreakpoint(s, Head(ids)), Tail(ids))

(***************************************************************************)
(* answer[b] is what the low-level debugger answers to the set of b, for   *)
(* the breakpoints whose set reaches it.  The fold gives "impossible" when *)
(* an answer names an id that is in use.                                   *)
(***************************************************************************)
RECURSIVE AddAll(_, _, _, _)
AddAll(s, ids, answer, t) ==
  IF ids = << >> THEN [s EXCEPT !.out = "ok"]
  ELSE IF Head(ids) \notin DOMAIN answer
  THEN AddAll(AddBreakpoint(s, Head(ids), NoId, t), Tail(ids), answer, t)
  ELSE IF answer[Head(ids)] \notin V8Answers(s)
  THEN [s EXCEPT !.out = "impossible"]
  ELSE AddAll(AddBreakpoint(s, Head(ids), answer[Head(ids)], t), Tail(ids),
              answer, t)

RemovedIds(s, response) == s.active \ response

RelistedNewSet(s, response) == response \ s.active

RepeatedNewSet(s, response) == response \ s.finalized

NewSet(s, response) == (response \ s.active) \ s.finalized

UpdateActiveBreakpoints(s, response, answer, t) ==
  [AddAll(RemoveAll(s, SeqOf(RemovedIds(s, response))),
          SeqOf(NewSet(s, response)), answer, t)
     EXCEPT !.lastPoll = response]

(***************************************************************************)
(* The callbacks the Debuglet gives to set and wait.                       *)
(***************************************************************************)
SetCallback(s, b, t) ==
  IF s.breakpoints[b] = NoId THEN [s EXCEPT !.out = "uncaught"]
  ELSE IF ActionOf(b) = "LOG" THEN Log(s, b, t)
  ELSE Wait(s, b)

WaitCallback(s, b) == [CompleteBreakpoint(s, b) EXCEPT !.out = "completed"]

(***************************************************************************)
(* The fetch loop of the agent, from its first listBreakpoints request on: *)
(* the Debuglet drives the DebugApi.  Start and registration are in        *)
(* SpecLifecycle.                                                          *)
(***************************************************************************)
InitDebuglet == InitState /\ config \in Configs /\ ctl = FetchingCtl

PendingKinds == {immediates[i].kind : i \in 1..Len(immediates)}

Installable(response) ==
  {b \in NewSet(Cur, response) : ActionOf(b) \in {"CAPTURE", "LOG"}}

Poll(response, answer) ==
  /\ "setCb" \notin PendingKinds
  /\ Len(immediates) + Cardinality(RemovedIds(Cur, response))
       + Cardinality(Installable(response)) <= MaxPending
  /\ LET r == UpdateActiveBreakpoints(Cur, response, answer, now)
     IN r.out # "impossible" /\ Step(r, "poll")

(***************************************************************************)
(* A listBreakpoints answer with waitExpired, or a failed request.         *)
(***************************************************************************)
PollNoResult ==
  /\ "setCb" \notin PendingKinds
  /\ Step(Cur, "pollNoResult")

DebugletImmediate ==
  /\ immediates # << >>
  /\ LET cb == Head(immediates)
     IN CASE cb.kind = "setCb" ->
               Step(SetCallback(Dequeue(Cur), cb.bp, now), "setCb")
          [] cb.kind = "clearCb" ->
               Step([Dequeue(Cur) EXCEPT !.out = ClearCallbackOutcome],
                    "clearCb")
          [] cb.kind = "waitCb" ->
               Step(WaitCallback(Dequeue(Cur), cb.bp), "waitCb")

(***************************************************************************)
(* Timer callbacks run in the timers phase of the event loop and the       *)
(* callbacks queued with setImmediate in the check phase that follows the  *)
(* I/O phase, so a set callback queued by a poll runs before any timer.    *)
(***************************************************************************)
Expire(b) ==
  /\ ctl.stage = "running"
  /\ "setCb" \notin PendingKinds
  /\ b \in active
  /\ now - created[b] >= config.breakpointExpirationMs
  /\ Len(immediates) < MaxPending
  /\ Step([ExpireBreakpoint(Cur, b) EXCEPT !.out = "expired"], "expire")

DebugletTimerFire(tm) ==
  /\ "setCb" \notin PendingKinds
  /\ TimerFire(tm)

NextDebuglet ==
  \/ \E response \in SUBSET BpIds :
       \E answer \in [Installable(response) -> LowIds \cup {NoId}] :
         Poll(response, answer)
  \/ PollNoResult
  \/ \E hit \in LowIds \cup {NoHit}, captured \in BOOLEAN :
       Paused(hit, captured)
  \/ \E hit \in LowIds, captured \in BOOLEAN : StalePaused(hit, captured)
  \/ DebugletImmediate
  \/ \E b \in BpIds : Expire(b)
  \/ \E tm \in timers : DebugletTimerFire(tm)
  \/ Tick

SpecDebuglet == InitDebuglet /\ [][NextDebuglet]_vars

(***************************************************************************)
(* The Debuglet from construction on: start, registration with retry,      *)
(* the inactive state after isDisabled, and the fetch loop with its way    *)
(* back to registration.                                                   *)
(*                                                                         *)
(* start(): the project id is the one of the configuration, else the one   *)
(* of the environment, else the one the metadata service answers; "none"   *)
(* stands for a source that has no value.                                  *)
(***************************************************************************)
ResolveProjectId(fromConfig, fromEnv, fromMetadata) ==
  IF fromConfig # "none" THEN fromConfig
  ELSE IF fromEnv # "none" THEN fromEnv
  ELSE fromMetadata

UncheckedOnStart(c, projectId) ==
  [c EXCEPT !.stage = "running", !.projectId = projectId,
            !.started = Bump(@), !.pending = "registerTimer"]

OnStart(c, projectId) ==
  IF projectId = "none"
  THEN [c EXCEPT !.stage = "stopped", !.initError = Bump(@)]
  ELSE [c EXCEPT !.stage = "running", !.projectId = projectId,
                 !.started = Bump(@), !.pending = "registerTimer"]

OnRegisterTimer(c) ==
  [c EXCEPT !.pending = "registerRequest", !.registerRequests = Bump(@)]

NextBackoff(k) == Min(k + 1, MaxBackoff)

(***************************************************************************)
(* The answer to a register request: resp.ok says whether the status is    *)
(* 2xx; a 2xx answer carries debuggee.id and possibly isDisabled.          *)
(***************************************************************************)
RegisterResponses ==
  { [ok |-> FALSE, id |-> "none", isDisabled |-> FALSE] } \cup
  [ok : {TRUE}, id : {DEBUGGEE_ID, "baz"}, isDisabled : BOOLEAN]

GiveUpOnRegisterResponse(c, resp) ==
  IF ~resp.ok
  THEN [c EXCEPT !.pending = "none", !.lastRegister = "failed"]
  ELSE IF resp.isDisabled
  THEN [c EXCEPT !.pending = "registerTimer", !.debuggeeId = resp.id,
                 !.fetcherActive = FALSE, !.lastRegister = "disabled",
                 !.disabled = Bump(@)]
  ELSE [c EXCEPT !.pending = "fetchTimer", !.debuggeeId = resp.id,
                 !.fetcherActive = TRUE, !.lastRegister = "ok",
                 !.backoff = 0, !.registered = Bump(@)]

DisabledIgnoredOnRegisterResponse(c, resp) ==
  IF ~resp.ok
  THEN [c EXCEPT !.pending = "registerTimer", !.backoff = NextBackoff(@),
                 !.lastRegister = "failed"]
  ELSE [c EXCEPT !.pending = "fetchTimer", !.debuggeeId = resp.id,
                 !.fetcherActive = TRUE,
                 !.lastRegister = IF resp.isDisabled THEN "disabled" ELSE "ok",
                 !.disabled = IF resp.isDisabled THEN Bump(@) ELSE @,
                 !.backoff = 0, !.registered = Bump(@)]

OnRegisterResponse(c, resp) ==
  IF ~resp.ok
  THEN [c EXCEPT !.pending = "registerTimer", !.backoff = NextBackoff(@),
                 !.lastRegister = "failed"]
  ELSE IF resp.isDisabled
  THEN [c EXCEPT !.pending = "registerTimer", !.debuggeeId = resp.id,
                 !.fetcherActive = FALSE, !.lastRegister = "disabled",
                 !.disabled = Bump(@)]
  ELSE [c EXCEPT !.pending = "fetchTimer", !.debuggeeId = resp.id,
                 !.fetcherActive = TRUE, !.lastRegister = "ok",
                 !.backoff = 0, !.registered = Bump(@)]

RegisterOutcome(resp) ==
  IF ~resp.ok THEN "failed"
  ELSE IF resp.isDisabled THEN "disabled"
  ELSE "registered"

OnFetchTimer(c) ==
  [c EXCEPT !.pending = "listRequest", !.listRequests = Bump(@)]

(***************************************************************************)
(* The answer to the listBreakpoints long poll: a status that is not 2xx   *)
(* sends the Debuglet back to registration, any other answer is followed   *)
(* by the next fetch.                                                      *)
(***************************************************************************)
RefetchOnListResponse(c, ok) == [c EXCEPT !.pending = "fetchTimer"]

ReRegisterOnListResponse(c, ok) ==
  [c EXCEPT !.pending = "registerTimer", !.fetcherActive = FALSE]

OnListResponse(c, ok) ==
  IF ok THEN [c EXCEPT !.pending = "fetchTimer"]
  ELSE [c EXCEPT !.pending = "registerTimer", !.fetcherActive = FALSE]

OnStop(c) ==
  [c EXCEPT !.stage = "stopped", !.pending = "none", !.fetcherActive = FALSE]

Advance(s, op, out, c) ==
  /\ Commit(s)
  /\ ctl' = c
  /\ last' = Event(op, out)
  /\ UNCHANGED <<now, config>>
  /\ UNCHANGED otherVars

InitLifecycle == InitState /\ config \in Configs /\ ctl = InitCtl

Start(fromConfig, fromEnv, fromMetadata) ==
  /\ ctl.stage = "constructed"
  /\ LET projectId == ResolveProjectId(fromConfig, fromEnv, fromMetadata)
     IN Advance(Cur, "start",
                IF projectId = "none" THEN "initError" ELSE "started",
                OnStart(ctl, projectId))

\* Callbacks queued with setImmediate run before the next timer or
\* response is handled.
RegisterTimerFire ==
  /\ ctl.pending = "registerTimer"
  /\ immediates = << >>
  /\ Advance(Cur, "registerRequest", "sent", OnRegisterTimer(ctl))

RegisterResponse(resp) ==
  /\ ctl.pending = "registerRequest"
  /\ immediates = << >>
  /\ Advance(Cur, "registerResponse", RegisterOutcome(resp),
             OnRegisterResponse(ctl, resp))

FetchTimerFire ==
  /\ ctl.pending = "fetchTimer"
  /\ immediates = << >>
  /\ Advance(Cur, "listRequest", "sent", OnFetchTimer(ctl))

ListFailure ==
  /\ ctl.pending = "listRequest"
  /\ immediates = << >>
  /\ Advance(Cur, "listResponse", "failed", OnListResponse(ctl, FALSE))

ListWaitExpired ==
  /\ ctl.pending = "listRequest"
  /\ immediates = << >>
  /\ Advance(Cur, "listResponse", "waitExpired", OnListResponse(ctl, TRUE))

ListBreakpoints(response, answer) ==
  /\ ctl.pending = "listRequest"
  /\ immediates = << >>
  /\ Cardinality(RemovedIds(Cur, response))
       + Cardinality(Installable(response)) <= MaxPending
  /\ LET r == UpdateActiveBreakpoints(Cur, response, answer, now)
     IN /\ r.out # "impossible"
        /\ Advance(r, "listResponse", "breakpoints",
                   OnListResponse(ctl, TRUE))

Stop ==
  /\ ctl.stage = "running"
  /\ Advance(Cur, "stop", "stopped", OnStop(ctl))

\* The breakpoint lists the Controller answers with in this specification.
ListBodies == { {}, {1} }

ProjectIds(name) == {"none", name}

NextLifecycle ==
  \/ \E fromConfig \in ProjectIds("fake-project"),
        fromEnv \in ProjectIds("11020304f2934"),
        fromMetadata \in ProjectIds("numeric-project-id") :
       Start(fromConfig, fromEnv, fromMetadata)
  \/ RegisterTimerFire
  \/ \E resp \in RegisterResponses : RegisterResponse(resp)
  \/ FetchTimerFire
  \/ ListFailure
  \/ ListWaitExpired
  \/ \E response \in ListBodies :
       \E answer \in [Installable(response) -> LowIds \cup {NoId}] :
         ListBreakpoints(response, answer)
  \/ DebugletImmediate
  \/ \E b \in BpIds : Expire(b)
  \/ Tick
  \/ Stop

(***************************************************************************)
(* The Debuglet in a host program that never reaches a breakpoint.         *)
(***************************************************************************)
SpecLifecycle == InitLifecycle /\ [][NextLifecycle]_vars

\* The timers of the control loop fire, and the expiry check and the
\* callbacks queued with setImmediate get their turn of the event loop.
SpecLifecycleFair ==
  /\ SpecLifecycle
  /\ WF_vars(RegisterTimerFire)
  /\ WF_vars(FetchTimerFire)
  /\ WF_vars(DebugletImmediate)
  /\ \A b \in BpIds : SF_vars(Expire(b))

\* The state of the debug-API layer and of the Debuglet control loop.
agentVars ==
  <<breakpoints, listeners, numBreakpoints, hooks, immediates, timers,
    bpObj, stopped, active, finalized, updates, lastPoll, created,
    now, config, ctl, watch, trace, last>>

(***************************************************************************)
(* Debuglet.format(base, exprs), modelled from spec.md and the Debuglet    *)
(* test: a string is the sequence of its characters, a value of exprs the  *)
(* sequence of characters it prints as.  The template is read from left to *)
(* right.  "$$" gives "$".  A "$" followed by the decimal numeral of an    *)
(* index of exprs gives the value at that index, and of several such       *)
(* numerals the longest one is taken ('$11' with fourteen values is the    *)
(* value at 11; '$00' with one value is the value at 0 followed by '0').   *)
(* Any other "$" stays as it is.  What has been substituted is not read    *)
(* again.                                                                  *)
(***************************************************************************)
RECURSIVE Numeral(_)
Numeral(k) ==
  IF k < 10 THEN <<ToString(k)>>
  ELSE Numeral(k \div 10) \o <<ToString(k % 10)>>

StartsWith(str, prefix) ==
  Len(prefix) <= Len(str) /\ SubSeq(str, 1, Len(prefix)) = prefix

Drop(str, n) == SubSeq(str, n + 1, Len(str))

\* The indexes of exprs whose numeral comes next in rest.
Placeholders(rest, exprs) ==
  {k \in 0..(Len(exprs) - 1) : StartsWith(rest, Numeral(k))}

RECURSIVE ShortestMatchFormat(_, _)
ShortestMatchFormat(base, exprs) ==
  IF base = << >> THEN << >>
  ELSE IF Head(base) # "$"
  THEN <<Head(base)>> \o ShortestMatchFormat(Tail(base), exprs)
  ELSE IF StartsWith(base, <<"$", "$">>)
  THEN <<"$">> \o ShortestMatchFormat(Drop(base, 2), exprs)
  ELSE LET ks == Placeholders(Tail(base), exprs)
           k == CHOOSE x \in ks : \A y \in ks : x <= y
       IN IF ks = {} THEN <<"$">> \o ShortestMatchFormat(Tail(base), exprs)
          ELSE exprs[k + 1]
                 \o ShortestMatchFormat(Drop(base, 1 + Len(Numeral(k))),
                                        exprs)

RECURSIVE Format(_, _)
Format(base, exprs) ==
  IF base = << >> THEN << >>
  ELSE IF Head(base) # "$" THEN <<Head(base)>> \o Format(Tail(base), exprs)
  ELSE IF StartsWith(base, <<"$", "$">>)
  THEN <<"$">> \o Format(Drop(base, 2), exprs)
  ELSE LET ks == Placeholders(Tail(base), exprs)
           k == CHOOSE x \in ks : \A y \in ks : y <= x
       IN IF ks = {} THEN <<"$">> \o Format(Tail(base), exprs)
          ELSE exprs[k + 1]
                 \o Format(Drop(base, 1 + Len(Numeral(k))), exprs)

(***************************************************************************)
(* Debuglet.format applied to every template of at most MaxTemplate        *)
(* characters and to the argument lists of the test 'format should be      *)
(* correct'.                                                               *)
(***************************************************************************)
Chars == {"h", "$", "0", "1"}

Strings(alphabet, n) == UNION {[1..m -> alphabet] : m \in 0..n}

Templates == Strings(Chars, MaxTemplate)

\* [0, 1, 2, 3, 4, 5, 6, 7, 8, 9, 'a', 'b', 'c', 'd']
Fourteen ==
  <<<<"0">>, <<"1">>, <<"2">>, <<"3">>, <<"4">>, <<"5">>, <<"6">>, <<"7">>,
    <<"8">>, <<"9">>, <<"a">>, <<"b">>, <<"c">>, <<"d">>>>

\* [], [5], [5, 'there'] (as [5, 't']), ['$1', 5] and the fourteen values.
ArgLists ==
  { << >>, <<<<"5">>>>, <<<<"5">>, <<"t">>>>, <<<<"$", "1">>, <<"5">>>>,
    Fourteen }

InitFormat ==
  /\ InitAgent /\ config \in Configs /\ ctl = InitCtl
  /\ \E base \in Templates, exprs \in ArgLists :
       InitOthers([NoMessage EXCEPT !.base = base, !.exprs = exprs],
                  NoMapper, NoEnv)

FormatMessage ==
  /\ ~logMessage.done
  /\ logMessage' =
       [logMessage EXCEPT
          !.out = Format(logMessage.base, logMessage.exprs),
          !.done = TRUE]
  /\ UNCHANGED agentVars
  /\ UNCHANGED <<singleton, sessions, apiCall>>
  /\ UNCHANGED <<mapFiles, loads, infoMap_, mapperResult>>
  /\ UNCHANGED mainVars

NextFormat == FormatMessage

SpecFormat == InitFormat /\ [][NextFormat]_vars

(***************************************************************************)
(* debugapi.create(logger, config, jsFiles, sourcemapper).  s is the       *)
(* module state {singleton, sessions}.  The constructor of either DebugApi *)
(* connects the instance to the debugger; disconnect() ends that           *)
(* connection.  The outcome s.call records what create returned, whether   *)
(* it constructed an instance and how many instances were connected when   *)
(* the constructor ran.                                                    *)
(***************************************************************************)
Connected(s) == {i \in Apis : s.sessions[i].state = "connected"}

Constructed(s) == {i \in Apis : s.sessions[i].state # "none"}

Disconnect(s, i) == [s EXCEPT !.sessions[i].state = "disconnected"]

DebugApiConstructor(node8Above, useInspector) ==
  IF node8Above /\ useInspector THEN "InspectorDebugApi" ELSE "V8DebugApi"

\* new debugApiConstructor(...), which becomes the singleton.
Construct(s, force, kind) ==
  LET new == Cardinality(Constructed(s)) + 1
  IN [s EXCEPT
        !.sessions[new] = [kind |-> kind, state |-> "connected"],
        !.singleton = new,
        !.call = [op |-> "create", force |-> force, api |-> new,
                  opened |-> TRUE,
                  connectedBefore |-> Cardinality(Connected(s))]]

ConstructFirstCreate(s, force, kind) ==
  IF s.singleton # NoApi /\ ~force
  THEN [s EXCEPT !.call = [op |-> "create", force |-> force,
                           api |-> s.singleton, opened |-> FALSE,
                           connectedBefore |-> Cardinality(Connected(s))]]
  ELSE IF s.singleton # NoApi
  THEN Disconnect(Construct(s, force, kind), s.singleton)
  ELSE Construct(s, force, kind)

Create(s, force, kind) ==
  IF s.singleton # NoApi /\ ~force
  THEN [s EXCEPT !.call = [op |-> "create", force |-> force,
                           api |-> s.singleton, opened |-> FALSE,
                           connectedBefore |-> Cardinality(Connected(s))]]
  ELSE IF s.singleton # NoApi
  THEN Construct(Disconnect(s, s.singleton), force, kind)
  ELSE Construct(s, force, kind)

(***************************************************************************)
(* A program that calls debugapi.create, with and without                  *)
(* config.forceNewAgent_, and disconnect() on the instances it was given.  *)
(***************************************************************************)
CurApis == [singleton |-> singleton, sessions |-> sessions, call |-> apiCall]

InitCreate ==
  /\ InitAgent /\ config \in Configs /\ ctl = InitCtl
  /\ InitOthers(NoMessage, NoMapper, NoEnv)

CreateApi(force, node8Above, useInspector) ==
  /\ (singleton = NoApi \/ force) => Cardinality(Constructed(CurApis)) < MaxApis
  /\ LET r == Create(CurApis, force,
                     DebugApiConstructor(node8Above, useInspector))
     IN /\ singleton' = r.singleton
        /\ sessions' = r.sessions
        /\ apiCall' = r.call
  /\ UNCHANGED agentVars
  /\ UNCHANGED <<logMessage, mapFiles, loads, infoMap_, mapperResult>>
  /\ UNCHANGED mainVars

DisconnectApi(i) ==
  /\ sessions[i].state = "connected"
  /\ sessions' = Disconnect(CurApis, i).sessions
  /\ apiCall' = [NoApiCall EXCEPT !.op = "disconnect", !.api = i]
  /\ UNCHANGED singleton
  /\ UNCHANGED agentVars
  /\ UNCHANGED <<logMessage, mapFiles, loads, infoMap_, mapperResult>>
  /\ UNCHANGED mainVars

NextCreate ==
  \/ \E force \in BOOLEAN, node8Above \in BOOLEAN, useInspector \in BOOLEAN :
       CreateApi(force, node8Above, useInspector)
  \/ \E i \in Apis : DisconnectApi(i)

SpecCreate == InitCreate /\ [][NextCreate]_vars

(***************************************************************************)
(* sourcemapper.create(sourcemapPaths, callback).  A path is unreadable    *)
(* when it does not name a .map file or the file cannot be read or parsed; *)
(* a map that lists no source is an error as well.  The map file stands    *)
(* for the record {outputFile, mapFile, mapConsumer} made from it.         *)
(*                                                                         *)
(* ProcessSourcemap is the completion of the load of path m: it writes the *)
(* record of m under every source the map lists and reports to             *)
(* async.parallelLimit, which calls the final callback once, with the      *)
(* first error or when every load has completed.                           *)
(***************************************************************************)
Fails(content) == ~content.readable \/ content.sources = {}

FinalCallback(s) ==
  IF s.result # "none" THEN s
  ELSE IF \E m \in MapPaths : s.loads[m] = "failed"
  THEN [s EXCEPT !.result = "error"]
  ELSE IF \A m \in MapPaths : s.loads[m] = "done"
  THEN [s EXCEPT !.result = "mapper"]
  ELSE s

ProcessSourcemap(s, m) ==
  IF Fails(s.mapFiles[m])
  THEN FinalCallback([s EXCEPT !.loads[m] = "failed"])
  ELSE FinalCallback(
         [s EXCEPT !.loads[m] = "done",
                   !.infoMap_ = [src \in InputFiles |->
                                   IF src \in s.mapFiles[m].sources THEN m
                                   ELSE s.infoMap_[src]]])

\* The loads completing in the given order.
RECURSIVE Loaded(_, _)
Loaded(s, order) ==
  IF order = << >> THEN s
  ELSE Loaded(ProcessSourcemap(s, Head(order)), Tail(order))

(***************************************************************************)
(* sourcemapper.create called once, the reads of the map files completing  *)
(* in any order.                                                           *)
(***************************************************************************)
CurMapper ==
  [mapFiles |-> mapFiles, loads |-> loads, infoMap_ |-> infoMap_,
   result |-> mapperResult]

InitMapper ==
  /\ InitAgent /\ config \in Configs /\ ctl = InitCtl
  /\ \E files \in [MapPaths -> MapContents] :
       InitOthers(NoMessage, NewMapper(files), NoEnv)

LoadCompletes(m) ==
  /\ loads[m] = "pending"
  /\ LET s == ProcessSourcemap(CurMapper, m)
     IN /\ loads' = s.loads
        /\ infoMap_' = s.infoMap_
        /\ mapperResult' = s.result
  /\ UNCHANGED mapFiles
  /\ UNCHANGED agentVars
  /\ UNCHANGED <<logMessage, singleton, sessions, apiCall>>
  /\ UNCHANGED mainVars

NextMapper == \E m \in MapPaths : LoadCompletes(m)

SpecMapper == InitMapper /\ [][NextMapper]_vars

(***************************************************************************)
(* The agent's main module: initConfig, hasStarted, start and the          *)
(* one-second auto-start timer.  A configuration is kept as its `enabled`  *)
(* setting: "true", "false" or "undefined"; start() without an argument    *)
(* has "undefined".  The defaults of config.js, which is not part of the   *)
(* source tree, enable the agent, as the message of the auto-start timer   *)
(* says.                                                                   *)
(***************************************************************************)
DefaultEnabled == "true"

Settings == {"true", "false", "undefined"}

Envs ==
  [GCLOUD_DEBUG_DISABLE : BOOLEAN,
   GCLOUD_DIAGNOSTICS_CONFIG : {"unset"} \cup Settings]

\* _.defaultsDeep(config, defaults): a setting that is there stays.
DefaultsDeep(enabled, default) ==
  IF enabled = "undefined" THEN default ELSE enabled

\* initConfig(config_).enabled
initConfig(enabled, e) ==
  LET withFile == IF e.GCLOUD_DIAGNOSTICS_CONFIG = "unset" THEN enabled
                  ELSE DefaultsDeep(enabled, e.GCLOUD_DIAGNOSTICS_CONFIG)
      withDefaults == DefaultsDeep(withFile, DefaultEnabled)
  IN IF e.GCLOUD_DEBUG_DISABLE THEN "false" ELSE withDefaults

CurMain ==
  [started_ |-> started_, log_ |-> log_, debuglets |-> debuglets,
   autoStart |-> autoStart]

hasStarted(s) == s.started_

start(s, enabled, e) ==
  IF s.started_
  THEN [s EXCEPT !.log_.alreadyStarted = Bump(@)]
  ELSE LET logged == [s EXCEPT !.log_.created = TRUE]
       IN IF initConfig(enabled, e) = "true"
          THEN [logged EXCEPT !.debuglets = @ + 1, !.started_ = TRUE]
          ELSE logged

\* The callback of the setTimeout at the end of the module.
AutoStartTimer(s, e) ==
  IF ~s.started_
  THEN [start(s, "undefined", e) EXCEPT
          !.log_.autoStarted = Bump(@), !.autoStart = "fired"]
  ELSE [s EXCEPT !.autoStart = "fired"]

(***************************************************************************)
(* A program that requires the module and calls start() any number of      *)
(* times, before and after the timer fires.  startCall.disabled records    *)
(* that start was called with enabled false while the agent was not        *)
(* started.                                                                *)
(***************************************************************************)
InitStart ==
  /\ InitAgent /\ config \in Configs /\ ctl = InitCtl
  /\ \E e \in Envs : InitOthers(NoMessage, NoMapper, e)

CommitMain(s) ==
  /\ started_' = s.started_
  /\ log_' = s.log_
  /\ debuglets' = s.debuglets
  /\ autoStart' = s.autoStart
  /\ UNCHANGED env
  /\ UNCHANGED agentVars
  /\ UNCHANGED <<logMessage, singleton, sessions, apiCall>>
  /\ UNCHANGED <<mapFiles, loads, infoMap_, mapperResult>>

StartCall(enabled) ==
  /\ CommitMain(start(CurMain, enabled, env))
  /\ startCall' =
       [by |-> "call", enabled |-> enabled,
        disabled |-> startCall.disabled
                       \/ (enabled = "false" /\ ~hasStarted(CurMain))]

AutoStartFires ==
  /\ autoStart = "pending"
  /\ CommitMain(AutoStartTimer(CurMain, env))
  /\ startCall' = [startCall EXCEPT !.by = "timer", !.enabled = "undefined"]

NextStart ==
  \/ \E enabled \in Settings : StartCall(enabled)
  \/ AutoStartFires

SpecStart == InitStart /\ [][NextStart]_vars

PollStep == last'.op = "poll"

SetCallbacksFor(q, b) ==
  Cardinality({i \in 1..Len(q) : q[i] = Immediate("setCb", b)})

Expired(b) ==
  /\ b \in finalized
  /\ updates[b] # << >>
  /\ updates[b][1] = SNAPSHOT_EXPIRED_MESSAGE

C7_InstalledOnce ==
  [][PollStep =>
       \A b \in lastPoll \cap lastPoll' :
         /\ breakpoints'[b] = breakpoints[b]
         /\ bpObj'[b] = bpObj[b]
         /\ updates'[b] = updates[b]
         /\ SetCallbacksFor(immediates', b)
              = SetCallbacksFor(immediates, b)]_vars

\* A breakpoint that was installed on an earlier poll, and whose listener
\* has been registered since, is in the result of the latest poll as well.
C7_Witness ==
  \E b \in BpIds :
    /\ last.op = "poll"
    /\ b \in lastPoll
    /\ breakpoints[b] # NoId
    /\ listeners[breakpoints[b]].bp = b

(***************************************************************************)
(* C8: a poll whose result lacks a locally active breakpoint id clears     *)
(* that breakpoint in the DebugApi and drops it from activeBreakpointMap   *)
(* and issues no updateBreakpoint for it.                                  *)
(***************************************************************************)
C8_RemovedNotUpdated ==
  [][PollStep =>
       \A b \in active \ lastPoll' :
         /\ breakpoints'[b] = NoId
         /\ b \notin active'
         /\ updates'[b] = updates[b]
         /\ b \notin finalized']_vars

\* The latest poll removed an installed breakpoint that was never reported.
C8_Witness ==
  \E b \in BpIds :
    /\ last.op = "poll"
    /\ b \notin lastPoll
    /\ b \notin active
    /\ immediates # << >>
    /\ Immediate("clearCb", b) = immediates[Len(immediates)]
    /\ updates[b] = << >>

ValidAction(b) == ActionOf(b) \in {"CAPTURE", "LOG"}

(***************************************************************************)
(* C9: a polled breakpoint whose action is neither CAPTURE nor LOG gets    *)
(* exactly one updateBreakpoint, with the error status whose description   *)
(* says that the only supported actions are CAPTURE and LOG; it is never   *)
(* installed in the DebugApi and never in activeBreakpointMap, while a     *)
(* valid breakpoint of the same result that is not final is installed.     *)
(***************************************************************************)
C9_BadActionRejected ==
  /\ \A b \in BpIds :
       ~ValidAction(b) =>
         /\ b \notin active
         /\ breakpoints[b] = NoId
         /\ SetCallbacksFor(immediates, b) = 0
         /\ Len(updates[b]) <= 1
         /\ b \in lastPoll => updates[b] = <<BREAKPOINT_ACTION_MESSAGE>>
  /\ (\E b \in lastPoll : ~ValidAction(b)) =>
       \A v \in lastPoll \ finalized :
         ValidAction(v) => v \in active /\ breakpoints[v] # NoId

\* The latest result held a breakpoint with a bad action, which was
\* rejected, next to a valid one, which is installed.
C9_Witness ==
  /\ last.op = "poll"
  /\ \E b \in lastPoll :
       ~ValidAction(b) /\ updates[b] = <<BREAKPOINT_ACTION_MESSAGE>>
  /\ \E v \in lastPoll :
       /\ ValidAction(v)
       /\ v \in active
       /\ breakpoints[v] # NoId
       /\ SetCallbacksFor(immediates, v) = 1

(***************************************************************************)
(* C10: in every reachable state a breakpoint id is in activeBreakpointMap *)
(* exactly when it is in the last poll result and has not been reported    *)
(* as final.                                                               *)
(***************************************************************************)
C10_ActiveIffListedAndNotFinal ==
  \A b \in BpIds :
    b \in active <=> (b \in lastPoll /\ b \notin finalized)

\* Of two breakpoints of the last result one is active and one is final,
\* and a poll without result has come in since.
C10_Witness ==
  /\ active # {}
  /\ lastPoll \cap finalized # {}
  /\ \E b \in finalized : updates[b] # << >> /\ bpObj[b].stackFrames
  /\ last.op = "pollNoResult"

(***************************************************************************)
(* C2: wait is one-shot.  The callback of a listener registered by wait    *)
(* runs at most once, and once it has run every pause event for the same   *)
(* low-level id is skipped by the pause handler, without capture, without  *)
(* a second callback and without a warning, until the breakpoint is        *)
(* cleared.                                                                *)
(***************************************************************************)
C2_WaitOneShot ==
  \A l \in LowIds :
    listeners[l].kind = "wait" =>
      /\ listeners[l].hits <= 1
      /\ listeners[l].hits = 1 =>
           \A captured \in BOOLEAN :
             HandleDebugPausedEvent(Cur, l, captured, now, config).out
               = "skipped"

ClearStep == last'.op = "clear" /\ last'.out = "ok"

StalePauseStep == last'.op = "stalePaused"

(***************************************************************************)
(* C3: a pause event that reports a low-level id whose breakpoint has been *)
(* removed from the low-level debugger is a no-op: no listener callback    *)
(* runs (nothing is queued, no timer started, no listener changed) and no  *)
(* field of any Breakpoint object changes.                                 *)
(***************************************************************************)
C3_PauseAfterClearIsNoOp ==
  [][StalePauseStep =>
       /\ last'.out # "fired"
       /\ bpObj' = bpObj
       /\ immediates' = immediates
       /\ timers' = timers
       /\ listeners' = listeners
       /\ breakpoints' = breakpoints]_vars

\* A breakpoint with a listener was hit and then cleared, and a pause event
\* for a removed low-level id arrived after the clear.
C3_Witness ==
  /\ last.op = "stalePaused"
  /\ last.out = "warn"
  /\ \E b \in BpIds :
       /\ bpObj[b].evaluatedExpressions
       /\ breakpoints[b] = NoId
       /\ \E i \in 1..Len(immediates) : immediates[i] = Immediate("clearCb", b)

Registered(s, b, how, t) ==
  CASE how = "wait" -> Wait(s, b)
    [] how = "log" -> Log(s, b, t)
    [] OTHER -> s

(***************************************************************************)
(* C4: in every reachable state, a set of a breakpoint that succeeds,      *)
(* followed by its clear, with or without wait or log in between, gives    *)
(* back the breakpoints map, the listeners map and the numBreakpoints      *)
(* counter of the state before the set.                                    *)
(***************************************************************************)
C4_SetClearRestores ==
  \A b \in ApiBps, res \in V8Answers(Cur), how \in {"none", "wait", "log"} :
    LET afterSet == Set(Cur, b, GoodInput, res)
        afterClear == Clear(Registered(afterSet, b, how, now), b)
    IN afterSet.out = "ok" =>
         /\ afterClear.breakpoints = breakpoints
         /\ afterClear.listeners = listeners
         /\ afterClear.numBreakpoints = numBreakpoints

(***************************************************************************)
(* C5: a clear of an installed breakpoint makes numBreakpoints_() exactly  *)
(* one less; it makes numListeners_() exactly one less when a listener is  *)
(* registered under the breakpoint's low-level id and leaves it as it is   *)
(* when none is.                                                           *)
(***************************************************************************)
C5_ClearDecrements ==
  [][ClearStep =>
       \E b \in BpIds :
         /\ breakpoints[b] # NoId
         /\ breakpoints'[b] = NoId
         /\ numBreakpoints_(Cur') = numBreakpoints_(Cur) - 1
         /\ numListeners_(Cur') =
              IF listeners[breakpoints[b]] # NoListener
              THEN numListeners_(Cur) - 1
              ELSE numListeners_(Cur)]_vars

\* Both cases have happened: the latest clear removed a breakpoint with a
\* listener, and an earlier one a breakpoint without.
C5_Witness ==
  /\ last.op = "clear"
  /\ last.out = "ok"
  /\ numListeners_(Cur) = 0
  /\ \E b \in BpIds : bpObj[b].evaluatedExpressions /\ breakpoints[b] = NoId
  /\ Len(immediates) = 2
  /\ immediates[1].kind = "clearCb"
  /\ immediates[2].kind = "clearCb"

\* C5 as it is worded: both numBreakpoints_() and numListeners_() are one
\* less after every successful clear.
C5_BothDecrement ==
  [][ClearStep =>
       /\ numBreakpoints_(Cur') = numBreakpoints_(Cur) - 1
       /\ numListeners_(Cur') = numListeners_(Cur) - 1]_vars

RegisteredStep == last'.op = "registerResponse" /\ last'.out = "registered"

(***************************************************************************)
(* C11: while the last register response carried isDisabled the fetcher is *)
(* inactive, no listBreakpoints request is issued and a registration is    *)
(* scheduled or out; a register response without isDisabled makes the      *)
(* fetcher active and schedules the fetch.                                 *)
(***************************************************************************)
C11_DisabledDoesNotFetch ==
  [][/\ (ctl'.stage = "running" /\ ctl'.lastRegister = "disabled") =>
          /\ ~ctl'.fetcherActive
          /\ last'.op # "listRequest"
          /\ ctl'.pending \in {"registerTimer", "registerRequest"}
     /\ RegisteredStep =>
          /\ ctl'.fetcherActive
          /\ ctl'.pending = "fetchTimer"]_vars

\* The Controller disabled a debuggee whose fetcher had been polling, and a
\* later register response without isDisabled has made the fetcher active.
C11_Witness ==
  /\ last = Event("registerResponse", "registered")
  /\ ctl.disabled >= 1
  /\ ctl.listRequests >= 1
  /\ ctl.fetcherActive

(***************************************************************************)
(* C12: a listBreakpoints response that is not 2xx deactivates the fetcher *)
(* and schedules a registration; a listBreakpoints request is only issued  *)
(* by an active fetcher, and an inactive fetcher becomes active only on a  *)
(* successful register response, which answers a register request and      *)
(* emits 'registered' (once more).                                         *)
(***************************************************************************)
C12_ListFailureReRegisters ==
  [][/\ (last'.op = "listResponse" /\ last'.out = "failed") =>
          /\ ~ctl'.fetcherActive
          /\ ctl'.pending = "registerTimer"
     /\ last'.op = "listRequest" => ctl.fetcherActive
     /\ (~ctl.fetcherActive /\ ctl'.fetcherActive) =>
          /\ RegisteredStep
          /\ ctl.pending = "registerRequest"
          /\ ctl'.registered = Bump(ctl.registered)]_vars

\* The long poll failed after the first registration, and the second
\* 'registered' event has been emitted.
C12_Witness ==
  /\ last = Event("registerResponse", "registered")
  /\ ctl.registered = 2
  /\ ctl.listRequests = 1
  /\ ctl.disabled = 0

(***************************************************************************)
(* C13: every register response that is not 2xx schedules a retry, and the *)
(* scheduled registration is sent unless the Debuglet is stopped; a        *)
(* successful register response emits 'registered' with the id the         *)
(* Controller assigned; no listBreakpoints request is issued before the    *)
(* first 'registered'.                                                     *)
(***************************************************************************)
C13_RegistrationRetried ==
  /\ [][/\ (last'.op = "registerResponse" /\ last'.out = "failed") =>
             ctl'.pending = "registerTimer"
        /\ \A resp \in RegisterResponses :
             (/\ ctl.pending = "registerRequest"
              /\ immediates = << >>
              /\ resp.ok /\ ~resp.isDisabled
              /\ ctl' = OnRegisterResponse(ctl, resp)
              /\ RegisteredStep) =>
               /\ ctl'.debuggeeId = resp.id
               /\ ctl'.registered = Bump(ctl.registered)
        /\ last'.op = "listRequest" => ctl.registered >= 1]_vars
  /\ (ctl.pending = "registerTimer")
       ~> (ctl.pending = "registerRequest" \/ ctl.stage = "stopped")

\* At least one register request failed and a retry was answered with
\* success.
C13_Witness ==
  /\ last = Event("registerResponse", "registered")
  /\ ctl.backoff = 0
  /\ ctl.registerRequests = MaxCount
  /\ ctl.registered = 1
  /\ ctl.disabled = 0
  /\ ctl.listRequests = 0
  /\ ctl.debuggeeId = DEBUGGEE_ID

(***************************************************************************)
(* C14: when start() resolves no project id, the Debuglet has emitted      *)
(* 'initError' once, has not emitted 'started', has sent no register       *)
(* request and waits for nothing.                                          *)
(***************************************************************************)
C14_NoProjectIdNoStart ==
  (ctl.stage # "constructed" /\ ctl.projectId = "none") =>
    /\ ctl.stage = "stopped"
    /\ ctl.initError = 1
    /\ ctl.started = 0
    /\ ctl.registerRequests = 0
    /\ ctl.pending = "none"

\* start() ran with no project id in the configuration or the environment
\* and with a metadata service that fails.
C14_Witness ==
  /\ last = Event("start", "initError")
  /\ ctl.projectId = "none"
  /\ ctl.initError = 1

Due(b) == now - created[b] >= config.breakpointExpirationMs

ExpireStep(b) ==
  last'.op = "expire" /\ b \notin finalized /\ b \in finalized'

(***************************************************************************)
(* C15: an active breakpoint whose expiration time has elapsed is          *)
(* eventually dropped from activeBreakpointMap, unless the Debuglet is     *)
(* stopped.  The step that expires it                                      *)
(* is taken only when the time has elapsed; it marks the breakpoint final  *)
(* with the status 'The snapshot has expired', clears it in the DebugApi   *)
(* and, when the breakpoint has not been hit, issues its one and only      *)
(* updateBreakpoint.  Before that time a breakpoint leaves                 *)
(* activeBreakpointMap only when a poll no longer lists it or when its     *)
(* wait callback reports a hit.                                            *)
(***************************************************************************)
C15_ExpiresWhenDue ==
  /\ [][\A b \in BpIds :
          /\ ExpireStep(b) =>
               /\ Due(b)
               /\ b \in active /\ b \notin active'
               /\ bpObj'[b].status = SNAPSHOT_EXPIRED_MESSAGE
               /\ breakpoints'[b] = NoId
               /\ ~bpObj[b].evaluatedExpressions =>
                    updates'[b] = <<SNAPSHOT_EXPIRED_MESSAGE>>
          /\ (b \in active /\ b \notin active' /\ ~Due(b)) =>
               last'.op \in {"poll", "listResponse", "waitCb"}]_vars
  /\ \A b \in BpIds :
       (b \in active /\ Due(b)) ~> (b \notin active \/ ctl.stage = "stopped")

\* A breakpoint with a registered listener that was never hit has expired.
C15_Witness ==
  \E b \in BpIds :
    /\ last = Event("expire", "expired")
    /\ Expired(b)
    /\ ~bpObj[b].evaluatedExpressions
    /\ b \in lastPoll
    /\ b \notin active
    /\ breakpoints[b] = NoId
    /\ immediates # << >>
    /\ immediates[Len(immediates)] = Immediate("clearCb", b)
    /\ \E l \in LowIds : l \notin hooks /\ listeners[l] = NoListener

LogListener(l) == listeners[l].kind = "log"

\* A pause event for low-level id l would make its listener emit a line.
Emits(s, l) == HandleDebugPausedEvent(s, l, TRUE, now, config).out = "fired"

(***************************************************************************)
(* C16: from the hit on which a log listener throttles itself until        *)
(* log.logDelaySeconds have elapsed since that hit, no pause event makes   *)
(* the listener emit a line.                                               *)
(***************************************************************************)
C16_QuietWhileThrottled ==
  \A l \in LowIds :
    (LogListener(l) /\ now < listeners[l].quietUntil) => ~Emits(Cur, l)

(***************************************************************************)
(* C17: the lines a log listener has emitted in its current timeslice,     *)
(* which logsThisSecond counts, never exceed log.maxLogsPerSecond.         *)
(***************************************************************************)
C17_AtMostMaxPerTimeslice ==
  \A l \in LowIds :
    LogListener(l) => listeners[l].logsThisSecond <= config.maxLogsPerSecond

TimerStep(tm) == last'.op = "timer" /\ tm \in timers /\ tm \notin timers'

\* The log listener under l is disabled, and not by a hit that found
\* shouldStop() true.
Throttled(l) ==
  /\ LogListener(l)
  /\ ~listeners[l].enabled
  /\ listeners[l].hits = 0

(***************************************************************************)
(* C18: when the re-enable timer of a throttled log listener fires while   *)
(* shouldStop() is false and the breakpoint has not been cleared, the      *)
(* listener is enabled again and the next pause event emits a line; and a  *)
(* throttled listener does not stay disabled for ever unless shouldStop()  *)
(* becomes true or the breakpoint is cleared.                              *)
(***************************************************************************)
C18_ThrottledIsReenabled ==
  /\ [][\A tm \in timers :
          (/\ TimerStep(tm)
           /\ Throttled(tm.low)
           /\ listeners[tm.low].bp = tm.owner
           /\ breakpoints[tm.owner] = tm.low
           /\ tm.owner \notin stopped) =>
            /\ now >= tm.due
            /\ listeners'[tm.low].enabled
            /\ Emits(Cur', tm.low)]_vars
  /\ \A l \in LowIds :
       (Throttled(l) /\ listeners[l].bp \notin stopped)
         ~> \/ listeners[l].enabled
            \/ listeners[l].bp \in stopped
            \/ listeners[l] = NoListener

\* The timer of a throttled log listener has fired after the delay and has
\* enabled the listener again.
C18_Witness ==
  /\ last = Event("timer", "enabled")
  /\ \E l \in LowIds :
       /\ LogListener(l)
       /\ listeners[l].enabled
       /\ listeners[l].quietUntil > 0
       /\ now >= listeners[l].quietUntil
       /\ listeners[l].logsThisSecond >= config.maxLogsPerSecond
       /\ listeners[l].bp \notin stopped
       /\ breakpoints[listeners[l].bp] = l
       /\ Emits(Cur, l)

(***************************************************************************)
(* C19: a log listener emits a line on at most one hit that finds          *)
(* shouldStop() true, and after that hit no pause event makes it emit      *)
(* again, whatever timers fire.                                            *)
(***************************************************************************)
C19_StoppedStaysSilent ==
  \A l \in LowIds :
    LogListener(l) =>
      /\ listeners[l].hits <= 1
      /\ listeners[l].hits = 1 => ~Emits(Cur, l)

(***************************************************************************)
(* C20: a hit never finalizes a LOG breakpoint.  Its object never gets     *)
(* stackFrames / variableTable; a pause event leaves it as final or not    *)
(* final as it was, leaves it active and installed, queues no completion   *)
(* callback for it and leaves its log listener registered, enabled or      *)
(* waiting for its re-enable timer, so that later hits emit again.  It     *)
(* becomes final only through expiry or through the reconciliation of a    *)
(* listBreakpoints result, and it leaves the active map only when it       *)
(* expires or when the server no longer lists it.                          *)
(***************************************************************************)
C20_LogNeverFinalizedByHit ==
  [][\A b \in BpIds :
       ActionOf(b) = "LOG" =>
         /\ ~bpObj'[b].stackFrames
         /\ last'.op \in {"paused", "stalePaused"} =>
              /\ (b \in finalized') <=> (b \in finalized)
              /\ (b \in active') <=> (b \in active)
              /\ breakpoints'[b] = breakpoints[b]
              /\ \A i \in 1..Len(immediates') :
                   ~(immediates'[i].kind = "waitCb" /\ immediates'[i].bp = b)
              /\ \A l \in LowIds :
                   (listeners[l].kind = "log" /\ listeners[l].bp = b) =>
                     /\ listeners'[l].kind = "log"
                     /\ listeners'[l].bp = b
                     /\ \/ listeners'[l].enabled
                        \/ \E tm \in timers' : tm.low = l
         /\ (b \in finalized' /\ b \notin finalized) =>
              last'.op \in {"expire", "poll"}
         /\ (b \in active /\ b \notin active') =>
              \/ last'.op = "expire"
              \/ last'.op = "poll" /\ b \notin lastPoll'
    ]_vars

\* A hit on an active logpoint has emitted a line for the second time in
\* its timeslice; the logpoint is neither final nor captured as a snapshot
\* and its listener is registered, throttled until its timer fires.
C20_Witness ==
  /\ last = Event("paused", "fired")
  /\ \E l \in LowIds :
       LET b == listeners[l].bp
       IN /\ listeners[l].kind = "log"
          /\ ActionOf(b) = "LOG"
          /\ b \in active
          /\ b \notin finalized
          /\ breakpoints[b] = l
          /\ bpObj[b].evaluatedExpressions
          /\ ~bpObj[b].stackFrames
          /\ listeners[l].logsThisSecond >= 2
          /\ ~listeners[l].enabled
          /\ \E tm \in timers : tm.low = l /\ tm.owner = b

(***************************************************************************)
(* The breakpoint a set step was given, and whether it would reach the     *)
(* line check / the low-level debugger if its line and condition were      *)
(* good.                                                                   *)
(***************************************************************************)
SetStep == last'.op = "set"

GivenInput == trace'.arg[1]

ReachesLineCheck(in) == SetError([in EXCEPT !.lines = in.line + 1]) = "ok"

C24_FailingSetChangesNothing ==
  [][SetStep =>
       LET b == trace'.bp
       IN IF last'.out # "ok"
          THEN /\ last'.out \in SetErrors
               /\ bpObj'[b].status = last'.out
               /\ RefersTo(last'.out) # "none"
               /\ hooks' = hooks
               /\ breakpoints' = breakpoints
               /\ listeners' = listeners
               /\ numBreakpoints' = numBreakpoints
          ELSE /\ breakpoints'[b] \in LowIds \ hooks
               /\ hooks' = hooks \cup {breakpoints'[b]}
               /\ numBreakpoints' = numBreakpoints + 1
               /\ listeners' = listeners
               /\ bpObj'[b].status = "none"
               /\ immediates' = Append(immediates, Immediate("setCb", b))
    ]_vars

\* The low-level debugger refused a breakpoint that passed every check,
\* while another breakpoint is installed.
C24_Witness ==
  /\ last = Event("set", "V8_BREAKPOINT_ERROR")
  /\ trace.call # << >>
  /\ bpObj[trace.bp].status = "V8_BREAKPOINT_ERROR"
  /\ breakpoints[trace.bp] = NoId
  /\ numBreakpoints = 1
  /\ Cardinality(hooks) = 1

(***************************************************************************)
(* C25: with exactly one matching script, set answers with the invalid     *)
(* line number error exactly when location.line is greater than the line   *)
(* count recorded for the script.                                          *)
(***************************************************************************)
C25_LineBeyondCount ==
  [][(SetStep /\ ReachesLineCheck(GivenInput)) =>
       ((last'.out = "INVALID_LINE_NUMBER")
          <=> (GivenInput.line > GivenInput.lines))
    ]_vars

(***************************************************************************)
(* C26: setBreakpointByUrl is given the resolved line minus 1, and as      *)
(* column the resolved 0-based column, plus MODULE_WRAP_PREFIX_LENGTH when *)
(* the resolved line is 1.                                                 *)
(***************************************************************************)
C26_WrapPrefixOnLineOne ==
  [][(SetStep /\ trace'.call # << >>) =>
       LET in == GivenInput
           args == trace'.call[1]
       IN /\ args.line = Line(in) - 1
          /\ args.column =
               (Column(in) - 1)
                 + (IF Line(in) = 1 THEN MODULE_WRAP_PREFIX_LENGTH ELSE 0)
    ]_vars

(***************************************************************************)
(* C27: a breakpoint whose condition is '', null or ';' and that is good   *)
(* otherwise reaches the low-level debugger and is installed there with no *)
(* condition.                                                              *)
(***************************************************************************)
C27_EmptyConditionIsNone ==
  [][(/\ SetStep
      /\ GivenInput.cond \in {"", "null", ";"}
      /\ SetError([GivenInput EXCEPT !.cond = "none"]) = "ok") =>
       /\ trace'.call # << >>
       /\ trace'.call[1].condition = NoCondition
       /\ last'.out \in {"ok", "V8_BREAKPOINT_ERROR"}
    ]_vars

\* The breakpoints on which a hit has been captured.
Captured(b) == bpObj[b].evaluatedExpressions /\ breakpoints[b] # NoId

(***************************************************************************)
(* C28: once a hit has been captured, evaluatedExpressions has one entry   *)
(* for each watch expression the breakpoint was set with, and entry k is   *)
(* the one of expressions[k].                                              *)
(***************************************************************************)
C28_OneEntryPerExpressionInOrder ==
  \A b \in BpIds :
    Captured(b) =>
      /\ Len(watch[b].evaluatedExpressions) = Len(watch[b].set)
      /\ \A k \in 1..Len(watch[b].evaluatedExpressions) :
           watch[b].evaluatedExpressions[k].k = k

(***************************************************************************)
(* C29: with a compile function attached, once a hit has been captured     *)
(* each expression the compile function throws on has its 'Error Compiling *)
(* Expression' entry, each other expression has a value that was computed  *)
(* from its compiled form, and a snapshot has its stack frames.            *)
(***************************************************************************)
C29_CompileFailureIsLocal ==
  \A b \in BpIds :
    (Captured(b) /\ watch[b].compile) =>
      /\ ActionOf(b) # "LOG" => bpObj[b].stackFrames
      /\ \A k \in 1..Len(watch[b].set) :
           LET entries == { i \in 1..Len(watch[b].evaluatedExpressions) :
                              watch[b].evaluatedExpressions[i].k = k }
           IN /\ Cardinality(entries) = 1
              /\ \A i \in entries :
                   IF watch[b].set[k].bad
                   THEN watch[b].evaluatedExpressions[i].kind =
                          "Error Compiling Expression"
                   ELSE /\ watch[b].evaluatedExpressions[i].kind = "value"
                        /\ watch[b].evaluatedExpressions[i].passes >= 1

PauseOps == {"paused", "stalePaused"}

\* The pause event of this step fires the enabled wait listener stored
\* under l.
WaitFires(l) ==
  /\ last'.op \in PauseOps
  /\ listeners[l].kind = "wait"
  /\ listeners[l].enabled
  /\ ~listeners'[l].enabled

WaitCallbacksOf(q, b) ==
  {i \in 1..Len(q) : q[i].kind = "waitCb" /\ q[i].bp = b}

(***************************************************************************)
(* C21: the pause handler never runs a deferred callback.  When it fires   *)
(* a wait listener it queues the callback behind the callbacks already     *)
(* queued and returns normally, with the capture on the breakpoint unless  *)
(* the callback is given an error.  The callback runs in a turn of its     *)
(* own, which changes nothing of the DebugApi's and in which an exception  *)
(* of the callback is uncaught.                                            *)
(***************************************************************************)
C21_WaitCallbackDeferred ==
  [][/\ last'.op \in PauseOps =>
          /\ last'.out \in {"nohit", "warn", "skipped", "fired"}
          /\ Len(immediates') >= Len(immediates)
          /\ SubSeq(immediates', 1, Len(immediates)) = immediates
     /\ \A l \in LowIds :
          WaitFires(l) =>
            LET b == listeners[l].bp
                cb == immediates'[Len(immediates')]
            IN /\ last'.out = "fired"
               /\ Len(immediates') = Len(immediates) + 1
               /\ cb.kind = "waitCb" /\ cb.bp = b
               /\ cb.err = "none" =>
                    /\ bpObj'[b].evaluatedExpressions
                    /\ bpObj'[b].stackFrames
     /\ last'.op = "waitCb" =>
          /\ Head(immediates).kind = "waitCb"
          /\ immediates' = Tail(immediates)
          /\ last'.out \in {"called", "uncaught"}
          /\ listeners' = listeners
          /\ breakpoints' = breakpoints
          /\ bpObj' = bpObj
    ]_vars

\* The callback of a wait listener that fired on a captured hit has run in
\* its own turn and has thrown.
C21_Witness ==
  /\ last = Event("waitCb", "uncaught")
  /\ \E l \in LowIds :
       /\ listeners[l].kind = "wait"
       /\ ~listeners[l].enabled
       /\ listeners[l].hits >= 1
       /\ bpObj[listeners[l].bp].stackFrames
       /\ WaitCallbacksOf(immediates, listeners[l].bp) = {}

(***************************************************************************)
(* C22: a clear leaves the callbacks that are queued in place, so the      *)
(* callback of a hit that was captured before the clear is still run, and  *)
(* it removes the breakpoint, its low-level breakpoint and its listener;   *)
(* a breakpoint has at most one wait callback pending, and a pending wait  *)
(* callback is eventually run.                                             *)
(***************************************************************************)
C22_ClearKeepsPendingCallback ==
  /\ [][\A b \in BpIds :
          (last'.op = "clear" /\ breakpoints[b] # NoId
             /\ breakpoints'[b] = NoId) =>
            /\ immediates' = Append(immediates, Immediate("clearCb", b))
            /\ hooks' = {}
            /\ numBreakpoints' = numBreakpoints - 1
            /\ \A l \in LowIds : listeners'[l] = NoListener
            /\ \A c \in BpIds : breakpoints'[c] = NoId
       ]_vars
  /\ [](\A b \in BpIds :
          Cardinality(WaitCallbacksOf(immediates, b)) <= 1)
  /\ \A b \in BpIds :
       (WaitCallbacksOf(immediates, b) # {})
         ~> (last.op = "waitCb" /\ WaitCallbacksOf(immediates, b) = {})

\* The breakpoint was cleared after its hit was captured and before the
\* callback of the hit has run: the callback is queued ahead of the one of
\* clear and nothing is installed or registered.
C22_Witness ==
  /\ last = Event("clear", "ok")
  /\ Len(immediates) = 2
  /\ immediates[1].kind = "waitCb"
  /\ immediates[2] = Immediate("clearCb", immediates[1].bp)
  /\ bpObj[immediates[1].bp].stackFrames
  /\ breakpoints[immediates[1].bp] = NoId
  /\ \A l \in LowIds : listeners[l] = NoListener
  /\ hooks = {}

(***************************************************************************)
(* C30: when capturing throws on a hit of an installed breakpoint with an  *)
(* enabled listener, the breakpoint gets the status that its state could   *)
(* not be captured; a wait listener is disabled as it is after a capture   *)
(* that succeeds, and its callback is queued once, with the error.         *)
(***************************************************************************)
C30_CaptureFailureStillCallsBack ==
  \A l \in LowIds :
    (/\ listeners[l] # NoListener
     /\ listeners[l].enabled
     /\ breakpoints[listeners[l].bp] # NoId) =>
      LET b == listeners[l].bp
          thrown == HandleDebugPausedEvent(Cur, l, FALSE, now, config)
          fine == HandleDebugPausedEvent(Cur, l, TRUE, now, config)
      IN /\ thrown.bpObj[b].status = "CAPTURE_BREAKPOINT_DATA"
         /\ RefersTo(thrown.bpObj[b].status) = "BREAKPOINT_SOURCE_LOCATION"
         /\ thrown.bpObj[b].stackFrames = bpObj[b].stackFrames
         /\ listeners[l].kind = "wait" =>
              /\ thrown.out = "fired"
              /\ thrown.immediates =
                   Append(immediates,
                          [Immediate("waitCb", b)
                             EXCEPT !.err = "CAPTURE_BREAKPOINT_DATA"])
              /\ fine.immediates = Append(immediates, Immediate("waitCb", b))
              /\ thrown.listeners = fine.listeners
              /\ ~thrown.listeners[l].enabled

\* Capturing threw on the hit of a snapshot: its wait listener is disabled
\* and its callback is queued with the error.
C30_Witness ==
  /\ last = Event("paused", "fired")
  /\ \E l \in LowIds :
       LET b == listeners[l].bp
       IN /\ listeners[l].kind = "wait"
          /\ ~listeners[l].enabled
          /\ breakpoints[b] = l
          /\ bpObj[b].status = "CAPTURE_BREAKPOINT_DATA"
          /\ ~bpObj[b].stackFrames
          /\ immediates # << >>
          /\ immediates[Len(immediates)] =
               [Immediate("waitCb", b) EXCEPT !.err = "CAPTURE_BREAKPOINT_DATA"]

(***************************************************************************)
(* C31: a clear of a breakpoint whose id is not installed reports an error *)
(* through cb and leaves the breakpoints map, the listeners map and the    *)
(* numBreakpoints counter as they are; a second clear of the same          *)
(* breakpoint does not decrement the counter again.                        *)
(***************************************************************************)
C31_UnknownClearChangesNothing ==
  [][last'.op = "clear" =>
       \/ /\ last'.out = "ok"
          /\ \E b \in BpIds : breakpoints[b] # NoId /\ breakpoints'[b] = NoId
       \/ /\ last'.out = "V8_BREAKPOINT_CLEAR_ERROR"
          /\ \E b \in BpIds :
               /\ breakpoints[b] = NoId
               /\ bpObj'[b].status = "V8_BREAKPOINT_CLEAR_ERROR"
          /\ breakpoints' = breakpoints
          /\ listeners' = listeners
          /\ numBreakpoints' = numBreakpoints
          /\ hooks' = hooks
          /\ immediates' = immediates]_vars

\* The second clear of a breakpoint: the callback of its first clear is
\* still queued and the latest clear reported the error.
C31_Witness ==
  /\ last.op = "clear"
  /\ last.out = "V8_BREAKPOINT_CLEAR_ERROR"
  /\ \E b \in BpIds :
       /\ breakpoints[b] = NoId
       /\ bpObj[b].status = "V8_BREAKPOINT_CLEAR_ERROR"
       /\ \E i \in 1..Len(immediates) : immediates[i] = Immediate("clearCb", b)

(***************************************************************************)
(* C32: clear(bp, cb) on an installed breakpoint invokes cb exactly once,  *)
(* in a later turn of the event loop: the clear step itself only queues    *)
(* the callback, and the turn that runs the queued callback invokes cb.    *)
(***************************************************************************)
C32_ClearCallbackOnce ==
  [][/\ ClearStep =>
          /\ Len(immediates') = Len(immediates) + 1
          /\ immediates'[Len(immediates')].kind = "clearCb"
     /\ last'.op = "clearCb" =>
          /\ immediates' = Tail(immediates)
          /\ last'.out = "called"]_vars

\* The utils.Listener objects of the listeners map: which keys are present
\* and the enabled flag of each, without the variables the listener
\* closures keep for themselves.
Registry(ls) ==
  [l \in LowIds |-> [kind |-> ls[l].kind, bp |-> ls[l].bp,
                     enabled |-> ls[l].enabled]]

(***************************************************************************)
(* C35: no pause event makes the pause handler throw or change the         *)
(* registry.  Every pause event is handled to a normal return and leaves   *)
(* the breakpoints map and the keys of the listeners map as they are; an   *)
(* event without hitBreakpoints, one whose id has no listener, one whose   *)
(* listener is disabled and one whose listener throws synchronously leave  *)
(* the listeners map and the counter unchanged as well.                    *)
(***************************************************************************)
C35_PauseHandlerIsSafe ==
  [][last'.op \in PauseOps =>
       /\ last'.out \in {"nohit", "warn", "skipped", "fired"}
       /\ breakpoints' = breakpoints
       /\ numBreakpoints' = numBreakpoints
       /\ \A l \in LowIds :
            (listeners'[l].kind = "none") = (listeners[l].kind = "none")
       /\ last'.out # "fired" =>
            /\ Registry(listeners') = Registry(listeners)
            /\ immediates' = immediates
            /\ timers' = timers]_vars

\* A listener threw synchronously: the latest pause event ended in the
\* catch block although every low-level id has a listener; the other
\* listener is one that a hit has disabled.
C35_Witness ==
  /\ last.op \in PauseOps
  /\ last.out = "warn"
  /\ \A l \in LowIds : listeners[l].kind # "none"
  /\ \E l \in LowIds : ~listeners[l].enabled

(***************************************************************************)
(* C37: the re-enable timer of a throttled log listener re-enables only    *)
(* the registration that started it.  A listener that a timer step enables *)
(* is the log listener of the timer's breakpoint, stored under the timer's *)
(* low-level id, and the delay it is waiting for is the timer's; a         *)
(* listener that wait or log stored under the same id after a clear and a  *)
(* new set is never enabled by the old timer.                              *)
(***************************************************************************)
C37_TimerReenablesOwnRegistration ==
  [][\A tm \in timers :
       TimerStep(tm) =>
         \A l \in LowIds :
           (listeners'[l].enabled /\ ~listeners[l].enabled) =>
             /\ l = tm.low
             /\ listeners[l].kind = "log"
             /\ listeners[l].bp = tm.owner
             /\ listeners[l].quietUntil = tm.due]_vars

(***************************************************************************)
(* C38: every breakpoint installed in the low-level debugger and not yet   *)
(* removed is recorded in exactly one entry of the breakpoints map, and    *)
(* every key of the listeners map is the low-level id of such an entry.    *)
(***************************************************************************)
C38_RegistryMatchesDebugger ==
  /\ \A h \in hooks : Cardinality({b \in BpIds : breakpoints[b] = h}) = 1
  /\ \A l \in LowIds :
       listeners[l].kind # "none" =>
         l \in hooks /\ \E b \in BpIds : breakpoints[b] = l

WaitExpiredStep == last'.op = "listResponse" /\ last'.out = "waitExpired"

(***************************************************************************)
(* C33: a long-poll response with waitExpired true leaves                  *)
(* activeBreakpointMap and the installed breakpoints as they are, and it   *)
(* is followed by a new listBreakpoints request without a registration in  *)
(* between (unless the Debuglet is stopped first).                         *)
(***************************************************************************)
C33_WaitExpiredRefetches ==
  /\ [][/\ WaitExpiredStep =>
             /\ active' = active
             /\ breakpoints' = breakpoints
             /\ listeners' = listeners
             /\ hooks' = hooks
             /\ numBreakpoints' = numBreakpoints
             /\ updates' = updates
             /\ finalized' = finalized
             /\ immediates' = immediates
             /\ ctl'.pending = "fetchTimer"
             /\ ctl'.fetcherActive
             /\ ctl'.registerRequests = ctl.registerRequests
             /\ ctl'.registered = ctl.registered
        /\ (ctl.pending = "fetchTimer" /\ ctl'.pending # "fetchTimer") =>
             last'.op \in {"listRequest", "stop"}]_vars
  /\ (last = Event("listResponse", "waitExpired"))
       ~> (last.op = "listRequest" \/ ctl.stage = "stopped")

\* The long poll expired while a breakpoint was active and installed.
C33_Witness ==
  /\ last = Event("listResponse", "waitExpired")
  /\ active # {}
  /\ \E b \in active : breakpoints[b] # NoId /\ breakpoints[b] \in hooks
  /\ ctl.registerRequests = 1

\* Text without "$", and a run of digits.
Digits == {"0", "1"}

NoDollar(str) == \A i \in 1..Len(str) : str[i] # "$"

AllDigits(str) == \A i \in 1..Len(str) : str[i] \in Digits

\* What "$" followed by the numeral of k stands for.
Substituted(k, exprs) ==
  IF k < Len(exprs) THEN exprs[k + 1] ELSE <<"$">> \o Numeral(k)

\* The assertions of the test 'format should be correct' that fit the
\* templates of this specification.
FormatTestCases ==
  /\ Format(<<"h">>, <<<<"5">>>>) = <<"h">>
  /\ Format(<<"h", "$", "0">>, <<<<"5">>>>) = <<"h", "5">>
  /\ Format(<<"$", "0", "$", "1">>, <<<<"5">>, <<"t">>>>) = <<"5", "t">>
  /\ Format(<<"$", "0", "$", "1">>, <<<<"5">>>>) = <<"5", "$", "1">>
  /\ Format(<<"h", "$", "$">>, <<<<"5">>>>) = <<"h", "$">>
  /\ Format(<<"h", "$", "$", "0">>, <<<<"5">>>>) = <<"h", "$", "0">>
  /\ Format(<<"h", "$", "0", "0">>, <<<<"5">>>>) = <<"h", "5", "0">>
  /\ Format(<<"h", "$", "0">>, <<<<"$", "1">>, <<"5">>>>) = <<"h", "$", "1">>
  /\ Format(<<"h", "$", "1", "1">>, Fourteen) = <<"h", "b">>

C36_OneConnectedInstance ==
  /\ [](Cardinality(Connected(CurApis)) <= 1)
  /\ [](singleton # NoApi => sessions[singleton].state # "none")
  /\ [][(apiCall'.op = "create"
           /\ <<singleton, sessions, apiCall>>'
                # <<singleton, sessions, apiCall>>) =>
          /\ apiCall'.api = singleton'
          /\ (singleton # NoApi /\ ~apiCall'.force) =>
               /\ singleton' = singleton
               /\ sessions' = sessions
               /\ ~apiCall'.opened
          /\ (singleton = NoApi \/ apiCall'.force) =>
               /\ apiCall'.opened
               /\ apiCall'.connectedBefore = 0
               /\ singleton' # singleton
               /\ sessions[singleton'].state = "none"
               /\ sessions'[singleton'].state = "connected"
               /\ Connected(CurApis') = {singleton'}
               /\ singleton # NoApi =>
                    sessions'[singleton].state = "disconnected"]_vars

\* create with forceNewAgent_ has replaced a connected singleton, and a
\* later call without it has returned the replacement.
C36_Witness ==
  /\ apiCall.op = "create"
  /\ ~apiCall.force
  /\ ~apiCall.opened
  /\ apiCall.api = singleton
  /\ singleton = 2
  /\ sessions[1].state = "disconnected"
  /\ sessions[2].state = "connected"

\* The orders in which the loads of the map files can complete.
CompletionOrders ==
  {order \in [MapPaths -> MapPaths] :
     \A i \in MapPaths, j \in MapPaths : order[i] = order[j] => i = j}

(***************************************************************************)
(* C39: the SourceMapper that create hands to its callback does not depend *)
(* on the order in which the parallel loads complete: the record stored    *)
(* for every input file is the one every other completion order stores,    *)
(* also when two map files list the same source.  When a map file fails to *)
(* load, create reports an error and hands over no mapper.                 *)
(***************************************************************************)
C39_OrderIndependentMapper ==
  /\ mapperResult = "mapper" =>
       \A order \in CompletionOrders :
         LET other == Loaded(NewMapper(mapFiles), order)
         IN other.result = "mapper" /\ other.infoMap_ = infoMap_
  /\ (\E m \in MapPaths : loads[m] = "failed") => mapperResult = "error"
  /\ (\E m \in MapPaths : Fails(mapFiles[m])) => mapperResult # "mapper"

(***************************************************************************)
(* C40: a start call with enabled false constructs and starts no Debuglet  *)
(* and leaves hasStarted() false; after such a call the auto-start timer   *)
(* does not start the agent either; and once the agent has started, no     *)
(* later start call and no timer starts a second one.                      *)
(***************************************************************************)
C40_DisabledIsNeverAutoStarted ==
  /\ [](debuglets <= 1)
  /\ [][/\ (startCall'.by = "call" /\ startCall'.enabled = "false"
              /\ mainVars' # mainVars) =>
             /\ debuglets' = debuglets
             /\ started_' = started_
        /\ (startCall.disabled /\ autoStart = "pending"
              /\ autoStart' = "fired") =>
             /\ debuglets' = debuglets
             /\ started_' = started_
        /\ started_ => (started_' /\ debuglets' = debuglets)]_vars

====
